---- MODULE Spec2Model ----
(***************************************************************************)
(* Model of the AudKyefo segmentation engine (core/splitter.py) and of the *)
(* orchestrator AudioProcessor (core/audio_processor.py), driven by the    *)
(* UI's ProcessingThread (ui/process_tab.py), and of the time functions of *)
(* utils/helpers.py and utils/validators.py (specification TimeSpec).      *)
(*                                                                         *)
(* Times.  The engine computes with Python numbers.  Equal parts divides   *)
(* the total by num_parts, so its window bounds are rationals: a window    *)
(* bound is kept as a numerator over the denominator `den` of the call     *)
(* (den = num_parts for equal parts, 1 otherwise), i.e. the arithmetic is  *)
(* exact; IEEE-754 rounding of the float division is not represented.      *)
(***************************************************************************)
EXTENDS Integers, Sequences, FiniteSets, TLC

VARIABLES
    audio_file,         \* AudioProcessor.audio_file: a path or None
    audio_segment,      \* AudioProcessor.audio_segment: None, or <<its length in ms>>
    metadata,           \* AudioProcessor.metadata: None ({}) or the path it was read from
    dirs,               \* directories that exist on the file system
    call,               \* parameters of the call in flight (or of the last call)
    pc,                 \* position of the call: idle, loop, returned, done
    i,                  \* loop index of the engine's for loop
    output_files,       \* the engine's output_files list
    written,            \* segments exported to disk by this call
    attempts,           \* part numbers whose export was attempted, in order
    progress,           \* percent values the split call delivered to the progress callback
    log,                \* messages the split call logged (logger.error / logger.warning)
    outcome,            \* how the call ended for its caller: none, returned, raised
    result,             \* the list returned to the caller
    error,              \* the exception raised inside the engine (or "none")
    signal,             \* the signal ProcessingThread.run emitted
    util_call,          \* a call of a function of utils: its name and arguments
    util_ret,           \* what that call handed back: a value or an exception
    ui                  \* the main window: enabled pages and button, configuration, thread

vars == <<audio_file, audio_segment, metadata, dirs, call, pc, i,
          output_files, written, attempts, progress, log, outcome, result, error, signal,
          util_call, util_ret, ui>>

----------------------------------------------------------------------------
(* Bounds of the model *)

MaxParts == 4
MaxOverlap == 2
MaxRanges == 2
MaxDuration == 2
MaxTimeLen == 5
MaxSeconds == 130

(* Program constants *)

PROGRESS_AUDIO_ANALYSIS == 20
PROGRESS_SPLITTING_START == 30
PROGRESS_SPLITTING_END == 90
PROGRESS_FILE_EXPORT == 100
MsPerSecond == 1000
DefaultNumParts == 2
DefaultDuration == 60

None == "None"

\* audio_segment is None, or <<len(audio_segment)>> in milliseconds
NoSegment == <<>>
Length(segment) == IF segment = NoSegment THEN 0 ELSE segment[1]

SPLIT_METHOD_EQUAL == "equal_parts"
SPLIT_METHOD_DURATION == "fixed_duration"
SPLIT_METHOD_CUSTOM == "custom_ranges"

SUPPORTED_INPUT_FORMATS == {"mp3", "wav", "aac", "ogg", "m4a", "flac"}
SUPPORTED_OUTPUT_FORMATS == {"mp3", "wav", "aac", "ogg", "m4a", "flac"}

Max(a, b) == IF a >= b THEN a ELSE b
Min(a, b) == IF a <= b THEN a ELSE b

----------------------------------------------------------------------------
(* The environment: files the user can pick, directories, call parameters *)

\* path |-> what the file system and the decoder answer for it, and the characters of
\* os.path.basename(path)
Files ==
    [p \in {"song.mp3", "live.clip.wav", "silent.mp3", "notes.txt", "bad.flac", "missing.mp3"} |->
        CASE p = "song.mp3" ->
                 [exists |-> TRUE, ext |-> "mp3", decodes |-> TRUE, length |-> 125000,
                  name |-> <<"s", "o", "n", "g", ".", "m", "p", "3">>]
          [] p = "live.clip.wav" ->
                 [exists |-> TRUE, ext |-> "wav", decodes |-> TRUE, length |-> 2500,
                  name |-> <<"l", "i", "v", "e", ".", "c", "l", "i", "p", ".", "w", "a", "v">>]
          [] p = "silent.mp3" ->
                 [exists |-> TRUE, ext |-> "mp3", decodes |-> TRUE, length |-> 0,
                  name |-> <<"s", "i", "l", "e", "n", "t", ".", "m", "p", "3">>]
          [] p = "notes.txt" ->
                 [exists |-> TRUE, ext |-> "txt", decodes |-> FALSE, length |-> 0,
                  name |-> <<"n", "o", "t", "e", "s", ".", "t", "x", "t">>]
          [] p = "bad.flac" ->
                 [exists |-> TRUE, ext |-> "flac", decodes |-> FALSE, length |-> 0,
                  name |-> <<"b", "a", "d", ".", "f", "l", "a", "c">>]
          [] p = "missing.mp3" ->
                 [exists |-> FALSE, ext |-> "mp3", decodes |-> FALSE, length |-> 0,
                  name |-> <<"m", "i", "s", "s", "i", "n", "g", ".", "m", "p", "3">>]]

Paths == DOMAIN Files

\* lengths (ms) of the AudioSegment handed to the engine when it is called directly
Totals == {0, 1, 2500, 125000}

\* output directories: "" is empty, "out" exists, "new" can be created, "denied/x" cannot
OutputDirs == {"", "out", "new", "denied/x"}
Creatable == {"new"}

OutputFormats == {"mp3", "MP3", "exe"}

\* str.lower() on the format strings drawn
Lower(format_str) == IF format_str = "MP3" THEN "mp3" ELSE format_str

\* utils/validators.py is_valid_output_format(format_str)
IsValidOutputFormat(format_str) == Lower(format_str) \in SUPPORTED_OUTPUT_FORMATS

Methods == {SPLIT_METHOD_EQUAL, SPLIT_METHOD_DURATION, SPLIT_METHOD_CUSTOM, "bogus"}

Durations == (-1 .. MaxDuration) \cup {DefaultDuration}

\* (start, end) pairs in seconds a caller may put in a custom range list
RangePool == {<<10, 20>>, <<15, 12>>, <<100, 200>>, <<-5, 10>>, <<-8, -2>>, <<130, 140>>}

\* the range list of the end-to-end scenario on a 125 s track
ScenarioRanges == <<(<<10, 20>>), (<<15, 12>>), (<<100, 200>>)>>

RangeLists == UNION {[1 .. n -> RangePool] : n \in 0 .. MaxRanges} \cup {ScenarioRanges}

EmptyKw == [k \in {} |-> 0]

\* kwargs.get(key, default)
Get(kw, key, default) == IF key \in DOMAIN kw THEN kw[key] ELSE default

\* the method-specific keyword arguments a caller may pass
MethodKwargs(method) ==
    CASE method = SPLIT_METHOD_EQUAL ->
             {EmptyKw} \cup {[num_parts |-> n] : n \in 0 .. MaxParts}
      [] method = SPLIT_METHOD_DURATION ->
             {EmptyKw} \cup {[duration |-> d] : d \in Durations}
      [] method = SPLIT_METHOD_CUSTOM ->
             {EmptyKw} \cup {[ranges |-> r] : r \in RangeLists}
      [] OTHER -> {EmptyKw}

\* ... with or without the key "overlap"
Kwargs(method) ==
    MethodKwargs(method) \cup
    {kw @@ [overlap |-> o] : kw \in MethodKwargs(method), o \in 0 .. MaxOverlap}

NoCall == [via |-> "none", method |-> "none", kw |-> EmptyKw, output_dir |-> "",
           output_format |-> "", total |-> 0, callback |-> FALSE,
           original_name |-> <<>>, naming_pattern |-> <<>>]

----------------------------------------------------------------------------
(* core/splitter.py: the three policies *)

\* int(a / b) for a >= 0: Python's int() truncates towards zero
IntDiv(a, b) == IF b > 0 THEN a \div b ELSE 0 - (a \div (0 - b))

\* split_equal_parts: start_time = max(0, i * part_duration - overlap), as a numerator over n
EqualStart(k, total, n, overlap) == Max(0, k * total - overlap * n)

\* (a slip: part_duration computed with integer division, total // num_parts)
EqualEndFloorDiv(k, total, n, overlap) ==
    Min(total * n, ((k + 1) * (total \div n)) * n + overlap * n)

\* split_equal_parts: end_time = min(total_duration, (i + 1) * part_duration + overlap), over n
EqualEnd(k, total, n, overlap) == Min(total * n, (k + 1) * total + overlap * n)

\* (a slip: the max(1, ...) is left out)
FixedNumPartsNoFloor(total, duration_ms, overlap_ms) ==
    IntDiv(total + overlap_ms, duration_ms - overlap_ms)

\* split_fixed_duration: num_parts = max(1, int((total + overlap_ms) / (duration_ms - overlap_ms)))
FixedNumParts(total, duration_ms, overlap_ms) ==
    Max(1, IntDiv(total + overlap_ms, duration_ms - overlap_ms))

\* split_fixed_duration: start_time = max(0, i * (duration_ms - overlap_ms))
FixedStart(k, duration_ms, overlap_ms) == Max(0, k * (duration_ms - overlap_ms))

\* (a slip: the duration is added in seconds, not milliseconds)
FixedEndSeconds(start, total, duration_ms) == Min(total, start + duration_ms \div MsPerSecond)

\* split_fixed_duration: end_time = min(total_duration, start_time + duration_ms)
FixedEnd(start, total, duration_ms) == Min(total, start + duration_ms)

\* split_fixed_duration: "Break if we've reached the end"
FixedBreak(start, total) == start >= total

\* split_custom_ranges: start_time = max(0, start_sec * 1000)
CustomStart(start_sec) == Max(0, start_sec * MsPerSecond)

\* (a slip: the end is not clamped to the total duration)
CustomEndUnclamped(end_sec, total) == end_sec * MsPerSecond

\* split_custom_ranges: end_time = min(total_duration, end_sec * 1000)
CustomEnd(end_sec, total) == Min(total, end_sec * MsPerSecond)

\* (a slip: only ranges starting past the end are skipped)
CustomSkipPastEndOnly(start, end, total) == start >= total

\* split_custom_ranges: "Skip invalid ranges"
CustomSkip(start, end, total) == start >= end \/ start >= total

\* (a slip: the loop counts the percent down from the end value)
LoopProgressCountdown(k, n) ==
    PROGRESS_SPLITTING_END
        - ((PROGRESS_SPLITTING_END - PROGRESS_SPLITTING_START) * k) \div n

\* progress = START + (END - START) * (i / n), delivered as int(progress)
LoopProgress(k, n) ==
    PROGRESS_SPLITTING_START
        + ((PROGRESS_SPLITTING_END - PROGRESS_SPLITTING_START) * k) \div n

\* the parameters each policy reads from kwargs
NumParts(kw) == Get(kw, "num_parts", DefaultNumParts)
Duration(kw) == Get(kw, "duration", DefaultDuration)
Ranges(kw) == Get(kw, "ranges", <<>>)
Overlap(kw) == Get(kw, "overlap", 0)

\* (a slip: one part is accepted, and an empty range list is not looked at)
EngineErrorLenient(method, kw, total) ==
    CASE method = SPLIT_METHOD_EQUAL ->
             IF NumParts(kw) < 1 THEN "ValueError: Number of parts must be at least 2"
             ELSE IF total <= 0 THEN "ValueError: Part duration is too small"
             ELSE "none"
      [] method = SPLIT_METHOD_DURATION ->
             IF Duration(kw) <= 0 THEN "ValueError: Duration must be greater than 0"
             ELSE IF Duration(kw) * MsPerSecond - Overlap(kw) * MsPerSecond = 0
                  THEN "ZeroDivisionError: division by zero"
             ELSE "none"
      [] method = SPLIT_METHOD_CUSTOM -> "none"
      [] OTHER -> "ValueError: Unknown splitting method"

\* the exception the engine raises before its loop, or "none"
EngineError(method, kw, total) ==
    CASE method = SPLIT_METHOD_EQUAL ->
             IF NumParts(kw) < 2 THEN "ValueError: Number of parts must be at least 2"
             ELSE IF total <= 0 THEN "ValueError: Part duration is too small"
             ELSE "none"
      [] method = SPLIT_METHOD_DURATION ->
             IF Duration(kw) <= 0 THEN "ValueError: Duration must be greater than 0"
             ELSE IF Duration(kw) * MsPerSecond - Overlap(kw) * MsPerSecond = 0
                  THEN "ZeroDivisionError: division by zero"
             ELSE "none"
      [] method = SPLIT_METHOD_CUSTOM ->
             IF Ranges(kw) = <<>> THEN "ValueError: No time ranges specified" ELSE "none"
      [] OTHER -> "ValueError: Unknown splitting method"

\* the number of iterations of the policy's for loop
NumIter(method, kw, total) ==
    CASE method = SPLIT_METHOD_EQUAL -> NumParts(kw)
      [] method = SPLIT_METHOD_DURATION ->
             FixedNumParts(total, Duration(kw) * MsPerSecond, Overlap(kw) * MsPerSecond)
      [] method = SPLIT_METHOD_CUSTOM -> Len(Ranges(kw))
      [] OTHER -> 0

\* the denominator of the window bounds of a call
Den(method, kw) == IF method = SPLIT_METHOD_EQUAL THEN NumParts(kw) ELSE 1

\* start_time of iteration k (0-based)
WindowStart(method, kw, total, k) ==
    CASE method = SPLIT_METHOD_EQUAL -> EqualStart(k, total, NumParts(kw), Overlap(kw))
      [] method = SPLIT_METHOD_DURATION ->
             FixedStart(k, Duration(kw) * MsPerSecond, Overlap(kw) * MsPerSecond)
      [] OTHER -> CustomStart(Ranges(kw)[k + 1][1])

\* end_time of iteration k (0-based)
WindowEnd(method, kw, total, k) ==
    CASE method = SPLIT_METHOD_EQUAL -> EqualEnd(k, total, NumParts(kw), Overlap(kw))
      [] method = SPLIT_METHOD_DURATION ->
             FixedEnd(WindowStart(method, kw, total, k), total, Duration(kw) * MsPerSecond)
      [] OTHER -> CustomEnd(Ranges(kw)[k + 1][2], total)

\* the iteration leaves the loop (break) without exporting
Breaks(method, kw, total, k) ==
    method = SPLIT_METHOD_DURATION /\ FixedBreak(WindowStart(method, kw, total, k), total)

\* the iteration is skipped (continue) without exporting
Skips(method, kw, total, k) ==
    method = SPLIT_METHOD_CUSTOM
    /\ CustomSkip(WindowStart(method, kw, total, k), WindowEnd(method, kw, total, k), total)

\* (a slip: surviving segments are renumbered contiguously)
SegmentRenumbered(method, kw, total, k) ==
    [number |-> Len(output_files) + 1,
     start  |-> WindowStart(method, kw, total, k),
     end    |-> WindowEnd(method, kw, total, k),
     den    |-> Den(method, kw)]

\* the segment iteration k slices and exports: audio[start_time:end_time], numbered k + 1
Segment(method, kw, total, k) ==
    [number |-> k + 1,
     start  |-> WindowStart(method, kw, total, k),
     end    |-> WindowEnd(method, kw, total, k),
     den    |-> Den(method, kw)]

----------------------------------------------------------------------------
(* utils/helpers.py *)

\* ensure_directory_exists(directory): the value it returns
EnsureDirectoryExists(directory, existing) ==
    IF directory = "" THEN FALSE
    ELSE IF directory \in existing THEN TRUE
    ELSE directory \in Creatable

\* ensure_directory_exists(directory): the directories existing afterwards (os.makedirs)
DirsAfterEnsure(directory, existing) ==
    IF directory /= "" /\ directory \notin existing /\ directory \in Creatable
    THEN existing \cup {directory}
    ELSE existing

----------------------------------------------------------------------------
(* utils/helpers.py and utils/validators.py: time strings.  A Python str is the
   sequence of its characters; "\n" is the line feed. *)

\* \d (ASCII digits; the digits of other scripts, which \d also matches, are not drawn)
Digits == {"0", "1", "2", "3", "4", "5", "6", "7", "8", "9"}

\* [0-5]
TensOfSeconds == {"0", "1", "2", "3", "4", "5"}

DigitValue ==
    [c \in Digits |->
        CASE c = "0" -> 0 [] c = "1" -> 1 [] c = "2" -> 2 [] c = "3" -> 3 [] c = "4" -> 4
          [] c = "5" -> 5 [] c = "6" -> 6 [] c = "7" -> 7 [] c = "8" -> 8 [] c = "9" -> 9]

DigitChar == [d \in 0 .. 9 |-> CHOOSE c \in Digits : DigitValue[c] = d]

\* int(text) of a string of digits
RECURSIVE IntOfDigits(_)
IntOfDigits(text) ==
    IF text = <<>> THEN 0
    ELSE IntOfDigits(SubSeq(text, 1, Len(text) - 1)) * 10 + DigitValue[text[Len(text)]]

\* int(text): surrounding whitespace (here a trailing line feed) is stripped first
IntOfText(text) ==
    IF text /= <<>> /\ text[Len(text)] = "\n"
    THEN IntOfDigits(SubSeq(text, 1, Len(text) - 1))
    ELSE IntOfDigits(text)

\* "$" of Python's re: the end of the string, or just before a line feed that ends it
DollarMatchesAt(time_str, k) ==
    \/ k = Len(time_str)
    \/ k = Len(time_str) - 1 /\ time_str[Len(time_str)] = "\n"

\* re.match(r"^(\d+):([0-5]\d)$", time_str): the lengths m of group 1 in a match
TimePatternMatches(time_str) ==
    {m \in 1 .. Len(time_str) - 3 :
        /\ \A k \in 1 .. m : time_str[k] \in Digits
        /\ time_str[m + 1] = ":"
        /\ time_str[m + 2] \in TensOfSeconds
        /\ time_str[m + 3] \in Digits
        /\ DollarMatchesAt(time_str, m + 3)}

\* what a call hands back: a value, or an exception
Return(value) == [kind |-> "return", value |-> value]
Raise(exc) == [kind |-> "raise", exc |-> exc]

\* str(n) for n >= 0
RECURSIVE Decimal(_)
Decimal(n) ==
    IF n < 10 THEN <<DigitChar[n]>> ELSE Append(Decimal(n \div 10), DigitChar[n % 10])

\* f"{n:02d}": the sign of a negative number counts for the width
ZeroPad2(n) ==
    IF n < 0 THEN <<"-">> \o Decimal(-n)
    ELSE IF n < 10 THEN <<"0">> \o Decimal(n) ELSE Decimal(n)

\* (a slip: the minutes are not padded to two digits)
FormatTimeUnpadded(seconds) ==
    Decimal(seconds \div 60) \o <<":">> \o ZeroPad2(seconds % 60)

\* format_time(seconds) for a whole number of seconds: minutes = seconds // 60 and
\* seconds % 60, both floored as in Python
FormatTime(seconds) ==
    ZeroPad2(seconds \div 60) \o <<":">> \o ZeroPad2(seconds % 60)

\* (a slip: the empty string goes to the pattern like any other)
ParseTimeStrict(time_str) ==
    IF TimePatternMatches(time_str) = {}
    THEN Raise("ValueError: Invalid time format")
    ELSE LET m == CHOOSE m \in TimePatternMatches(time_str) : TRUE
         IN  Return(IntOfDigits(SubSeq(time_str, 1, m)) * 60
                        + IntOfDigits(SubSeq(time_str, m + 2, m + 3)))

\* parse_time(time_str)
ParseTime(time_str) ==
    IF time_str = <<>> THEN Return(0)
    ELSE IF TimePatternMatches(time_str) = {}
    THEN Raise("ValueError: Invalid time format")
    ELSE LET m == CHOOSE m \in TimePatternMatches(time_str) : TRUE
         IN  Return(IntOfDigits(SubSeq(time_str, 1, m)) * 60
                        + IntOfDigits(SubSeq(time_str, m + 2, m + 3)))

\* is_valid_time_format(time_str)
IsValidTimeFormat(time_str) ==
    IF time_str = <<>> THEN FALSE ELSE TimePatternMatches(time_str) /= {}

\* time_str.split(':') of a string with exactly one colon
SplitAtColon(time_str) ==
    LET c == CHOOSE k \in 1 .. Len(time_str) : time_str[k] = ":"
    IN  <<SubSeq(time_str, 1, c - 1), SubSeq(time_str, c + 1, Len(time_str))>>

\* int(t.split(':')[0]) * 60 + int(t.split(':')[1])
SecondsOf(time_str) ==
    IntOfText(SplitAtColon(time_str)[1]) * 60 + IntOfText(SplitAtColon(time_str)[2])

\* (a slip: the end of the range is not compared with the total duration)
IsValidTimeRangeUnbounded(start_time, end_time, total_duration) ==
    IF ~IsValidTimeFormat(start_time) THEN <<FALSE, "Invalid start time format">>
    ELSE IF ~IsValidTimeFormat(end_time) THEN <<FALSE, "Invalid end time format">>
    ELSE IF SecondsOf(start_time) >= SecondsOf(end_time)
         THEN <<FALSE, "Start time must be less than end time">>
    ELSE IF SecondsOf(start_time) < 0 THEN <<FALSE, "Start time cannot be negative">>
    ELSE <<TRUE, None>>

\* is_valid_time_range(start_time, end_time, total_duration): (is_valid, error_message)
IsValidTimeRange(start_time, end_time, total_duration) ==
    IF ~IsValidTimeFormat(start_time) THEN <<FALSE, "Invalid start time format">>
    ELSE IF ~IsValidTimeFormat(end_time) THEN <<FALSE, "Invalid end time format">>
    ELSE IF SecondsOf(start_time) >= SecondsOf(end_time)
         THEN <<FALSE, "Start time must be less than end time">>
    ELSE IF SecondsOf(start_time) < 0 THEN <<FALSE, "Start time cannot be negative">>
    ELSE IF SecondsOf(end_time) > total_duration
         THEN <<FALSE, "End time exceeds audio duration">>
    ELSE <<TRUE, None>>

\* (the inputs of the calls explored)

\* the characters time strings are built from, and strings the tests and the UI name
TimeAlphabet == {"0", "5", "6", ":", "-", "\n"}

TimeExamples ==
    {<<"1", ":", "2">>, <<"0", "1", ":", "6", "0">>, <<"0", "1", "-", "3", "0">>,
     <<"1", ":", "3", "0">>, <<"0", "1", ":", "3", "0">>, <<"0", "1", ":", "5">>,
     <<"9", "9", ":", "5", "9">>, <<"6", "1", ":", "0", "1">>,
     <<"0", "0", "1", ":", "3", "0">>, <<"1", "0", "0", ":", "0", "0">>,
     <<"0", "1", ":", "3", "0", "\n">>,
     <<"i", "n", "v", "a", "l", "i", "d">>}

TimeStrings ==
    UNION {[1 .. n -> TimeAlphabet] : n \in 0 .. MaxTimeLen} \cup TimeExamples

\* whole numbers of seconds handed to format_time
SecondsValues == (0 .. MaxSeconds) \cup {3600, 3661, 5999, 6000}

\* the strings and total durations (seconds) handed to is_valid_time_range
RangeStrings ==
    {<<>>, <<"0", "0", ":", "0", "0">>, <<"0", "0", ":", "3", "0">>,
     <<"0", "1", ":", "0", "0">>, <<"0", "2", ":", "0", "0">>, <<"0", "3", ":", "0", "0">>,
     <<"1", ":", "0", "0">>, <<"0", "1", ":", "6", "0">>, <<"0", "1", "-", "3", "0">>,
     <<"0", "1", ":", "0", "0", "\n">>, <<"i", "n", "v", "a", "l", "i", "d">>}

TotalDurations == {0, 30, 60, 120, 125}

----------------------------------------------------------------------------
(* utils/validators.py, utils/helpers.py: naming patterns and file names *)

\* the placeholders a naming pattern may use, as strings of characters
OriginalNameVar == <<"{", "o", "r", "i", "g", "i", "n", "a", "l", "_", "n", "a", "m", "e", "}">>
NumberVar == <<"{", "n", "u", "m", "b", "e", "r", "}">>
NumberPaddedVar == <<"{", "n", "u", "m", "b", "e", "r", ":", "0", "3", "d", "}">>
StartTimeVar == <<"{", "s", "t", "a", "r", "t", "_", "t", "i", "m", "e", "}">>
EndTimeVar == <<"{", "e", "n", "d", "_", "t", "i", "m", "e", "}">>

\* "{number": the text is_valid_naming_pattern looks for
NumberPrefix == <<"{", "n", "u", "m", "b", "e", "r">>

\* the names str.format is given in generate_output_filename
OriginalNameKey == <<"o", "r", "i", "g", "i", "n", "a", "l", "_", "n", "a", "m", "e">>
NumberKey == <<"n", "u", "m", "b", "e", "r">>
StartTimeKey == <<"s", "t", "a", "r", "t", "_", "t", "i", "m", "e">>
EndTimeKey == <<"e", "n", "d", "_", "t", "i", "m", "e">>

\* invalid_chars = r'[<>:"/\\|?*]'
InvalidChars == {"<", ">", ":", "\"", "/", "\\", "|", "?", "*"}

\* sub in text
Contains(text, sub) ==
    \E k \in 1 .. Len(text) - Len(sub) + 1 : SubSeq(text, k, k + Len(sub) - 1) = sub

\* text.replace(sub, ""): the occurrences of sub are removed from left to right
RECURSIVE RemoveAll(_, _)
RemoveAll(text, sub) ==
    IF Len(text) < Len(sub) THEN text
    ELSE IF SubSeq(text, 1, Len(sub)) = sub
         THEN RemoveAll(SubSeq(text, Len(sub) + 1, Len(text)), sub)
    ELSE <<text[1]>> \o RemoveAll(Tail(text), sub)

\* test_pattern after the loop over the five variables, removed in the order of the list
TestPattern(pattern) ==
    RemoveAll(RemoveAll(RemoveAll(RemoveAll(RemoveAll(pattern,
        OriginalNameVar), NumberVar), NumberPaddedVar), StartTimeVar), EndTimeVar)

\* re.search(invalid_chars, text)
SearchInvalidChars(text) == \E k \in 1 .. Len(text) : text[k] \in InvalidChars

\* is_valid_naming_pattern(pattern): (is_valid, error_message)
IsValidNamingPattern(pattern) ==
    IF pattern = <<>> THEN <<FALSE, "Naming pattern cannot be empty">>
    ELSE IF ~Contains(pattern, OriginalNameVar)
         THEN <<FALSE, "Naming pattern must include {original_name}">>
    ELSE IF /\ ~Contains(pattern, NumberPrefix)
            /\ ~Contains(pattern, StartTimeVar)
            /\ ~Contains(pattern, EndTimeVar)
         THEN <<FALSE, "Naming pattern must include at least one of: {number}, {start_time}, {end_time}">>
    ELSE IF SearchInvalidChars(TestPattern(pattern))
         THEN <<FALSE, "Naming pattern contains invalid characters for file names">>
    ELSE <<TRUE, None>>

\* os.path.splitext(name)[0] for a name without directory separators: the text before the
\* last dot, unless only dots precede it (a leading dot starts no extension)
SplitExtRoot(name) ==
    LET dots == {k \in 1 .. Len(name) : name[k] = "."}
    IN  IF dots = {} THEN name
        ELSE LET dotIndex == CHOOSE k \in dots : \A j \in dots : j <= k
             IN  IF \E j \in 1 .. dotIndex - 1 : name[j] /= "."
                 THEN SubSeq(name, 1, dotIndex - 1)
                 ELSE name

\* f"{n:0{width}d}" for n >= 0
RECURSIVE ZeroPad(_, _)
ZeroPad(n, width) ==
    IF Len(Decimal(n)) >= width THEN Decimal(n)
    ELSE <<"0">> \o ZeroPad(n, width - 1)

\* format(number, spec) for the specs "" and "0Wd" (W one digit); any other text drawn
\* here is no format specification for an int
FormatInt(n, format_spec) ==
    IF format_spec = <<>> THEN Return(Decimal(n))
    ELSE IF /\ Len(format_spec) = 3
            /\ format_spec[1] = "0"
            /\ format_spec[2] \in Digits
            /\ format_spec[3] = "d"
         THEN Return(ZeroPad(n, DigitValue[format_spec[2]]))
    ELSE Raise("ValueError")

\* one replacement field of str.format, given the text between its braces: the name up to
\* the first colon is looked up in the keyword arguments, the rest is the format spec
FormatField(field, values) ==
    LET colons == {k \in 1 .. Len(field) : field[k] = ":"}
        colon == IF colons = {} THEN Len(field) + 1
                 ELSE CHOOSE k \in colons : \A j \in colons : k <= j
        field_name == SubSeq(field, 1, colon - 1)
        format_spec == SubSeq(field, colon + 1, Len(field))
    IN  IF \E k \in 1 .. Len(field_name) : field_name[k] = "{" THEN Raise("ValueError")
        ELSE IF field_name = <<>> \/ \A k \in 1 .. Len(field_name) : field_name[k] \in Digits
             THEN Raise("IndexError")
        ELSE IF field_name = NumberKey THEN FormatInt(values.number, format_spec)
        ELSE IF field_name \in {OriginalNameKey, StartTimeKey, EndTimeKey}
             THEN IF format_spec /= <<>> THEN Raise("ValueError")
                  ELSE IF field_name = OriginalNameKey THEN Return(values.original_name)
                  ELSE IF field_name = StartTimeKey THEN Return(values.start_time)
                  ELSE Return(values.end_time)
        ELSE Raise("KeyError")

\* the index of the brace that closes the field opened by text[1] = "{", 0 if there is
\* none: braces opened inside the field are closed first
FieldEnd(text) ==
    LET closing == {k \in 2 .. Len(text) : text[k] = "}"}
        first == IF closing = {} THEN 0
                 ELSE CHOOSE k \in closing : \A j \in closing : k <= j
        Depth(k) == Cardinality({j \in 1 .. k : text[j] = "{"})
                        - Cardinality({j \in 1 .. k : text[j] = "}"})
    IN  IF first = 0 THEN 0
        ELSE IF \A j \in 2 .. first - 1 : text[j] /= "{" THEN first
        ELSE IF \E k \in closing : Depth(k) = 0
             THEN CHOOSE k \in closing : Depth(k) = 0 /\ \A j \in closing : Depth(j) = 0 => k <= j
        ELSE 0

\* text followed by what the rest of the format string renders to, or the rest's exception
Then(text, rest) == IF rest.kind = "raise" THEN rest ELSE Return(text \o rest.value)

\* pattern.format(**values): literal text is copied, "{{" and "}}" are braces, a field is
\* replaced by its value; the first malformed or unknown field from the left raises
RECURSIVE Format(_, _)
Format(pattern, values) ==
    IF pattern = <<>> THEN Return(<<>>)
    ELSE IF pattern[1] = "{"
         THEN IF Len(pattern) >= 2 /\ pattern[2] = "{"
              THEN Then(<<"{">>, Format(SubSeq(pattern, 3, Len(pattern)), values))
              ELSE IF FieldEnd(pattern) = 0 THEN Raise("ValueError")
              ELSE LET piece == FormatField(SubSeq(pattern, 2, FieldEnd(pattern) - 1), values)
                   IN  IF piece.kind = "raise" THEN piece
                       ELSE Then(piece.value,
                                 Format(SubSeq(pattern, FieldEnd(pattern) + 1, Len(pattern)),
                                        values))
    ELSE IF pattern[1] = "}"
         THEN IF Len(pattern) >= 2 /\ pattern[2] = "}"
              THEN Then(<<"}">>, Format(SubSeq(pattern, 3, Len(pattern)), values))
              ELSE Raise("ValueError")
    ELSE Then(<<pattern[1]>>, Format(Tail(pattern), values))

\* format_time(t) if t is not None else "": an optional time is <<>> (None) or <<seconds>>
FormatOptionalTime(t) == IF t = <<>> THEN <<>> ELSE FormatTime(t[1])

\* generate_output_filename(original_name, part_number, start_time, end_time, pattern,
\* extension): the file name, or the exception pattern.format raises
GenerateOutputFilename(original_name, part_number, start_time, end_time, pattern, extension) ==
    LET filename == Format(pattern, [original_name |-> SplitExtRoot(original_name),
                                     number |-> part_number,
                                     start_time |-> FormatOptionalTime(start_time),
                                     end_time |-> FormatOptionalTime(end_time)])
    IN  IF filename.kind = "raise" THEN filename
        ELSE Return(filename.value \o <<".">> \o extension)

\* (the inputs of the calls explored)

\* "{number:04d}": {number} with another format width; "{title}": a name format is not given
NumberWideVar == <<"{", "n", "u", "m", "b", "e", "r", ":", "0", "4", "d", "}">>
TitleVar == <<"{", "t", "i", "t", "l", "e", "}">>

\* the pieces naming patterns are put together from
PatternPieces ==
    {OriginalNameVar, NumberVar, NumberPaddedVar, NumberWideVar, StartTimeVar, EndTimeVar,
     TitleVar, <<"{">>, <<"}">>, <<"_", "p", "a", "r", "t", "_">>, <<"?">>}

MaxPieces == 3

RECURSIVE Flatten(_)
Flatten(pieces) == IF pieces = <<>> THEN <<>> ELSE Head(pieces) \o Flatten(Tail(pieces))

\* DEFAULT_NAMING_PATTERN and the patterns of the unit tests
DEFAULT_NAMING_PATTERN == OriginalNameVar \o <<"_", "p", "a", "r", "t", "_">> \o NumberPaddedVar

PatternExamples ==
    {DEFAULT_NAMING_PATTERN,
     OriginalNameVar \o <<"_", "p", "a", "r", "t", "_">> \o NumberVar,
     OriginalNameVar \o <<"_">> \o StartTimeVar \o <<"-">> \o EndTimeVar,
     <<"p", "a", "r", "t", "_">> \o NumberVar,
     OriginalNameVar \o <<"_", "p", "a", "r", "t">>,
     OriginalNameVar \o <<"_", "p", "a", "r", "t", "_">> \o NumberVar \o <<"?">>}

NamingPatterns ==
    {Flatten(pieces) : pieces \in UNION {[1 .. n -> PatternPieces] : n \in 0 .. MaxPieces}}
        \cup PatternExamples

\* original names, with no, one and two extensions
OriginalNames ==
    {<<"t", "e", "s", "t">>, <<"t", "e", "s", "t", ".", "m", "p", "3">>,
     <<"m", "y", ".", "s", "o", "n", "g", ".", "m", "p", "3">>}

\* (part number, start, end, extension) of the calls of generate_output_filename explored
PartArguments ==
    {<<1, <<>>, <<>>, <<"w", "a", "v">>>>, <<12, <<0>>, <<60>>, <<"m", "p", "3">>>>}

\* the naming patterns of the splits explored: the default, the one of the unit tests that
\* names a segment by its times, and one that names a field format is not given
TimesPattern == OriginalNameVar \o <<"_">> \o StartTimeVar \o <<"-">> \o EndTimeVar
UnknownFieldPattern == OriginalNameVar \o NumberVar \o TitleVar

SplitPatterns == {DEFAULT_NAMING_PATTERN, TimesPattern, UnknownFieldPattern}

\* original_name of the direct calls of the engine
EngineOriginalName == <<"s", "o", "n", "g">>

\* the characters of an output format
FormatChars(output_format) ==
    CASE output_format = "mp3" -> <<"m", "p", "3">>
      [] output_format = "MP3" -> <<"M", "P", "3">>
      [] output_format = "wav" -> <<"w", "a", "v">>
      [] OTHER -> <<"e", "x", "e">>

\* the start and end generate_output_filename is given in iteration k: start_time/1000 and
\* end_time/1000 of the window (format_time floors them), but start_sec and end_sec as the
\* caller wrote them in split_custom_ranges
NameStart(method, kw, total, k) ==
    IF method = SPLIT_METHOD_CUSTOM THEN Ranges(kw)[k + 1][1]
    ELSE WindowStart(method, kw, total, k) \div (Den(method, kw) * MsPerSecond)

NameEnd(method, kw, total, k) ==
    IF method = SPLIT_METHOD_CUSTOM THEN Ranges(kw)[k + 1][2]
    ELSE WindowEnd(method, kw, total, k) \div (Den(method, kw) * MsPerSecond)

\* filename of iteration k of a call c, or the exception generate_output_filename raises
FileName(c, k) ==
    GenerateOutputFilename(c.original_name, k + 1,
                           <<NameStart(c.method, c.kw, c.total, k)>>,
                           <<NameEnd(c.method, c.kw, c.total, k)>>,
                           c.naming_pattern, FormatChars(c.output_format))

\* output_path = os.path.join(output_dir, filename)
OutputPath(c, k) == <<c.output_dir, FileName(c, k).value>>

----------------------------------------------------------------------------
(* State *)

\* "not self.audio_segment": None, or an AudioSegment of length 0, is falsy
Falsy(segment) == segment = NoSegment \/ segment[1] = 0

\* no time function has been called / the call has not returned yet
NoUtilCall == [fn |-> "none", args |-> <<>>]
NoReturn == [kind |-> "none"]

\* no configuration applied yet (ProcessTab.config = {})
NoConfig == [method |-> "none", output_dir |-> "", output_format |-> "",
             naming_pattern |-> <<>>, kw |-> EmptyKw]

\* MainWindow.__init__: the file page is enabled, ConfigTab and ProcessTab disable
\* themselves, the process button is enabled, no ProcessingThread exists
WindowInit == [file_page |-> TRUE, config_page |-> FALSE, process_page |-> FALSE,
               process_button |-> TRUE, config |-> NoConfig,
               thread |-> "none", thread_config |-> NoConfig]

\* AudioProcessor.__init__, and no split call made yet
ProcessorInit ==
    /\ audio_file = None
    /\ audio_segment = NoSegment
    /\ metadata = None
    /\ dirs = {"out"}
    /\ call = NoCall
    /\ pc = "idle"
    /\ i = 0
    /\ output_files = <<>>
    /\ written = {}
    /\ attempts = <<>>
    /\ progress = <<>>
    /\ log = <<>>
    /\ outcome = "none"
    /\ result = <<>>
    /\ error = "none"
    /\ signal = "none"

Init ==
    /\ ProcessorInit
    /\ util_call = NoUtilCall
    /\ util_ret = NoReturn
    /\ ui = WindowInit

\* no call is in flight
Quiet == pc = "idle"

\* AudioProcessor._update_progress(percent): delivered only when a callback is set
UpdateProgress(events, percent, callback) ==
    IF callback THEN Append(events, percent) ELSE events

\* the observations of a call, as a new call or a load finds them
FreshObservations ==
    /\ i' = 0
    /\ output_files' = <<>>
    /\ written' = {}
    /\ attempts' = <<>>
    /\ outcome' = "none"
    /\ result' = <<>>
    /\ error' = "none"
    /\ signal' = "none"

----------------------------------------------------------------------------
(* AudioProcessor.load_file *)

\* what AudioProcessor.load_file(path) does to the three fields of the processor
LoadFileFields(path) ==
    IF ~Files[path].exists
    THEN \* return False
         UNCHANGED <<audio_file, audio_segment, metadata>>
    ELSE IF Files[path].ext \notin SUPPORTED_INPUT_FORMATS
    THEN \* audio_file is assigned before the extension is checked
         /\ audio_file' = path
         /\ UNCHANGED <<audio_segment, metadata>>
    ELSE IF Files[path].decodes
    THEN /\ audio_file' = path
         /\ audio_segment' = <<Files[path].length>>
         /\ metadata' = path
    ELSE \* except: the three fields are cleared
         /\ audio_file' = None
         /\ audio_segment' = NoSegment
         /\ metadata' = None

\* AudioProcessor.load_file(path), called while no split is in flight
LoadFile(path) ==
    /\ UNCHANGED <<util_call, util_ret, ui>>
    /\ Quiet
    /\ UNCHANGED <<dirs, call, pc, i, output_files, written, attempts, progress, log,
                   outcome, result, error, signal>>
    /\ LoadFileFields(path)

----------------------------------------------------------------------------
(* The engine's loop, shared by the three policies *)

\* the engine returns output_files: to AudioProcessor.split_audio, which reports 100 and
\* returns the list, or to a direct caller
EngineReturns ==
    /\ result' = output_files
    /\ outcome' = "returned"
    /\ IF call.via = "processor"
       THEN /\ progress' = UpdateProgress(progress, PROGRESS_FILE_EXPORT, call.callback)
            /\ pc' = "returned"
       ELSE /\ progress' = progress
            /\ pc' = "done"

\* (a slip: the except branch returns the files exported so far)
EngineRaisesPartial(exc, events) ==
    /\ error' = exc
    /\ result' = output_files
    /\ IF call.via = "processor"
       THEN /\ log' = Append(log, "Error splitting audio")
            /\ progress' = UpdateProgress(events, 0, call.callback)
            /\ outcome' = "returned"
            /\ pc' = "returned"
       ELSE /\ log' = log
            /\ progress' = events
            /\ outcome' = "raised"
            /\ pc' = "done"

\* an exception leaves the engine: AudioProcessor.split_audio catches it, logs it, reports 0
\* and returns []; a direct caller sees the exception
EngineRaises(exc, events) ==
    /\ error' = exc
    /\ result' = <<>>
    /\ IF call.via = "processor"
       THEN /\ log' = Append(log, "Error splitting audio")
            /\ progress' = UpdateProgress(events, 0, call.callback)
            /\ outcome' = "returned"
            /\ pc' = "returned"
       ELSE /\ log' = log
            /\ progress' = events
            /\ outcome' = "raised"
            /\ pc' = "done"

\* the percent values after the progress report that opens iteration i
IterProgress ==
    UpdateProgress(progress, LoopProgress(i, NumIter(call.method, call.kw, call.total)),
                   call.callback)

Looping == pc = "loop" /\ i < NumIter(call.method, call.kw, call.total)

\* (a slip: the path of a new segment is put in front of the list)
IterExportPrepends ==
    /\ UNCHANGED <<util_call, util_ret, ui>>
    /\ Looping
    /\ ~Breaks(call.method, call.kw, call.total, i)
    /\ ~Skips(call.method, call.kw, call.total, i)
    /\ FileName(call, i).kind = "return"
    /\ progress' = IterProgress
    /\ attempts' = Append(attempts, i + 1)
    /\ written' = written \cup {Segment(call.method, call.kw, call.total, i)}
    /\ output_files' = <<Segment(call.method, call.kw, call.total, i)>> \o output_files
    /\ i' = i + 1
    /\ UNCHANGED <<audio_file, audio_segment, metadata, dirs, call, pc,
                   log, outcome, result, error, signal>>

\* one iteration whose export succeeds
IterExport ==
    /\ UNCHANGED <<util_call, util_ret, ui>>
    /\ Looping
    /\ ~Breaks(call.method, call.kw, call.total, i)
    /\ ~Skips(call.method, call.kw, call.total, i)
    /\ FileName(call, i).kind = "return"
    /\ progress' = IterProgress
    /\ attempts' = Append(attempts, i + 1)
    /\ written' = written \cup {Segment(call.method, call.kw, call.total, i)}
    /\ output_files' = Append(output_files, Segment(call.method, call.kw, call.total, i))
    /\ i' = i + 1
    /\ UNCHANGED <<audio_file, audio_segment, metadata, dirs, call, pc,
                   log, outcome, result, error, signal>>

\* one iteration whose generate_output_filename(...) raises: nothing is exported
IterNameFails ==
    /\ UNCHANGED <<util_call, util_ret, ui>>
    /\ Looping
    /\ ~Breaks(call.method, call.kw, call.total, i)
    /\ ~Skips(call.method, call.kw, call.total, i)
    /\ FileName(call, i).kind = "raise"
    /\ EngineRaises(FileName(call, i).exc, IterProgress)
    /\ UNCHANGED <<audio_file, audio_segment, metadata, dirs, call, i,
                   output_files, written, attempts, signal>>

\* one iteration whose segment.export(...) throws
IterExportFails ==
    /\ UNCHANGED <<util_call, util_ret, ui>>
    /\ Looping
    /\ ~Breaks(call.method, call.kw, call.total, i)
    /\ ~Skips(call.method, call.kw, call.total, i)
    /\ FileName(call, i).kind = "return"
    /\ attempts' = Append(attempts, i + 1)
    /\ EngineRaises("ExportError", IterProgress)
    /\ UNCHANGED <<audio_file, audio_segment, metadata, dirs, call, i,
                   output_files, written, signal>>

\* split_custom_ranges: an invalid range is logged and skipped
IterSkip ==
    /\ UNCHANGED <<util_call, util_ret, ui>>
    /\ Looping
    /\ Skips(call.method, call.kw, call.total, i)
    /\ progress' = IterProgress
    /\ log' = Append(log, "Skipping invalid range")
    /\ i' = i + 1
    /\ UNCHANGED <<audio_file, audio_segment, metadata, dirs, call, pc,
                   output_files, written, attempts, outcome, result, error, signal>>

\* split_fixed_duration: the loop is left once start_time >= total_duration
IterBreak ==
    /\ UNCHANGED <<util_call, util_ret, ui>>
    /\ Looping
    /\ Breaks(call.method, call.kw, call.total, i)
    /\ result' = output_files
    /\ outcome' = "returned"
    /\ IF call.via = "processor"
       THEN /\ progress' = UpdateProgress(IterProgress, PROGRESS_FILE_EXPORT, call.callback)
            /\ pc' = "returned"
       ELSE /\ progress' = IterProgress
            /\ pc' = "done"
    /\ UNCHANGED <<audio_file, audio_segment, metadata, dirs, call, i,
                   output_files, written, attempts, log, error, signal>>

\* the loop has run all its iterations
LoopEnd ==
    /\ UNCHANGED <<util_call, util_ret, ui>>
    /\ pc = "loop"
    /\ i = NumIter(call.method, call.kw, call.total)
    /\ EngineReturns
    /\ UNCHANGED <<audio_file, audio_segment, metadata, dirs, call, i,
                   output_files, written, attempts, log, error, signal>>

----------------------------------------------------------------------------
(* AudioProcessor.split_audio, called by ProcessingThread.run *)

\* (a slip: the output format is checked before the audio)
GuardFormatFirst(segment, output_format, output_dir, existing) ==
    IF output_format \notin SUPPORTED_OUTPUT_FORMATS THEN "Unsupported output format"
    ELSE IF Falsy(segment) THEN "No audio file loaded"
    ELSE IF ~EnsureDirectoryExists(output_dir, existing) THEN "Could not create output directory"
    ELSE "none"

\* the guard that stops the call, in the order the code checks them, or "none"
Guard(segment, output_format, output_dir, existing) ==
    IF Falsy(segment) THEN "No audio file loaded"
    ELSE IF output_format \notin SUPPORTED_OUTPUT_FORMATS THEN "Unsupported output format"
    ELSE IF ~EnsureDirectoryExists(output_dir, existing) THEN "Could not create output directory"
    ELSE "none"

\* the directories existing after the guards: the third guard alone touches the file system
DirsAfterGuards(segment, output_format, output_dir, existing) ==
    IF Falsy(segment) \/ output_format \notin SUPPORTED_OUTPUT_FORMATS
    THEN existing
    ELSE DirsAfterEnsure(output_dir, existing)

\* split_audio(..., overlap=overlap, progress_callback=..., **kwargs): the keyword arguments
\* the engine receives; a second "overlap" in kwargs is a TypeError at the call
KeywordClash(kw) == "overlap" \in DOMAIN kw

EngineKwargs(kw) == kw @@ [overlap |-> Get(kw, "overlap", 0)]

\* the exception the try block of AudioProcessor.split_audio meets before the loop, or "none"
EntryError(method, kw, total) ==
    IF KeywordClash(kw)
    THEN "TypeError: got multiple values for keyword argument 'overlap'"
    ELSE EngineError(method, EngineKwargs(kw), total)

\* ProcessingThread.run up to the engine's loop: set_progress_callback (so every
\* _update_progress of the call is delivered), then
\* AudioProcessor.split_audio(method, output_dir, output_format, naming_pattern, **kwargs)
SplitAudio(method, output_dir, output_format, naming_pattern, kw) ==
    /\ call' = [via |-> "processor", method |-> method, kw |-> EngineKwargs(kw),
                output_dir |-> output_dir, output_format |-> output_format,
                total |-> Length(audio_segment),
                callback |-> TRUE,
                \* os.path.splitext(os.path.basename(self.audio_file))[0]
                original_name |-> IF audio_file = None THEN <<>>
                                  ELSE SplitExtRoot(Files[audio_file].name),
                naming_pattern |-> naming_pattern]
    /\ i' = 0
    /\ output_files' = <<>>
    /\ written' = {}
    /\ attempts' = <<>>
    /\ signal' = "none"
    /\ result' = <<>>
    /\ dirs' = DirsAfterGuards(audio_segment, output_format, output_dir, dirs)
    /\ UNCHANGED <<audio_file, audio_segment, metadata>>
    /\ IF Guard(audio_segment, output_format, output_dir, dirs) /= "none"
       THEN \* return []
            /\ log' = <<Guard(audio_segment, output_format, output_dir, dirs)>>
            /\ progress' = <<>>
            /\ error' = "none"
            /\ outcome' = "returned"
            /\ pc' = "returned"
       ELSE IF audio_file = None
       THEN \* os.path.basename(None) raises outside the try block
            /\ log' = <<>>
            /\ progress' = <<PROGRESS_AUDIO_ANALYSIS>>
            /\ error' = "TypeError: expected str, bytes or os.PathLike object"
            /\ outcome' = "raised"
            /\ pc' = "returned"
       ELSE IF EntryError(method, kw, Length(audio_segment)) /= "none"
       THEN \* except Exception: log, report 0, return []
            /\ log' = <<"Error splitting audio">>
            /\ progress' = <<PROGRESS_AUDIO_ANALYSIS, PROGRESS_SPLITTING_START, 0>>
            /\ error' = EntryError(method, kw, Length(audio_segment))
            /\ outcome' = "returned"
            /\ pc' = "returned"
       ELSE /\ log' = <<>>
            /\ progress' = <<PROGRESS_AUDIO_ANALYSIS, PROGRESS_SPLITTING_START>>
            /\ error' = "none"
            /\ outcome' = "none"
            /\ pc' = "loop"

\* AudioProcessor.split_audio called while no other call is in flight
CallProcessor(method, output_dir, output_format, naming_pattern, kw) ==
    /\ UNCHANGED <<util_call, util_ret, ui>>
    /\ Quiet
    /\ SplitAudio(method, output_dir, output_format, naming_pattern, kw)

\* (a slip: an empty list is reported as an error)
ThreadEmitErrorOnEmpty ==
    /\ UNCHANGED <<util_call, util_ret, ui>>
    /\ pc = "returned"
    /\ signal' = IF outcome = "raised" \/ result = <<>>
                 THEN "processing_error" ELSE "processing_finished"
    /\ pc' = "done"
    /\ UNCHANGED <<audio_file, audio_segment, metadata, dirs, call, i,
                   output_files, written, attempts, progress, log, outcome, result, error>>

\* ProcessingThread.run after AudioProcessor.split_audio: emit the finished signal with the
\* list, or the error signal when the call raised
ThreadEmit ==
    /\ UNCHANGED <<util_call, util_ret, ui>>
    /\ pc = "returned"
    /\ signal' = IF outcome = "raised" THEN "processing_error" ELSE "processing_finished"
    /\ pc' = "done"
    /\ UNCHANGED <<audio_file, audio_segment, metadata, dirs, call, i,
                   output_files, written, attempts, progress, log, outcome, result, error>>

----------------------------------------------------------------------------
(* core.splitter.split_audio called directly on an AudioSegment of length total.  The
   engine reads nothing of an AudioProcessor, so direct calls are explored beside a
   processor that has loaded nothing. *)

CallEngine(method, kw, total, naming_pattern) ==
    /\ UNCHANGED <<util_call, util_ret, ui>>
    /\ Quiet
    /\ audio_file = None
    /\ call' = [via |-> "engine", method |-> method, kw |-> kw, output_dir |-> "out",
                output_format |-> "mp3", total |-> total, callback |-> TRUE,
                original_name |-> EngineOriginalName, naming_pattern |-> naming_pattern]
    /\ i' = 0
    /\ output_files' = <<>>
    /\ written' = {}
    /\ attempts' = <<>>
    /\ signal' = "none"
    /\ result' = <<>>
    /\ log' = <<>>
    /\ progress' = <<>>
    /\ UNCHANGED <<audio_file, audio_segment, metadata, dirs>>
    /\ IF EngineError(method, kw, total) /= "none"
       THEN /\ error' = EngineError(method, kw, total)
            /\ outcome' = "raised"
            /\ pc' = "done"
       ELSE /\ error' = "none"
            /\ outcome' = "none"
            /\ pc' = "loop"

----------------------------------------------------------------------------
(* The caller has received the outcome (ProcessTab.on_processing_finished or
   on_processing_error re-enables the process button): a new operation may start *)

CallerContinues ==
    /\ UNCHANGED <<util_call, util_ret, ui>>
    /\ pc = "done"
    /\ pc' = "idle"
    /\ call' = NoCall
    /\ FreshObservations
    /\ progress' = <<>>
    /\ log' = <<>>
    /\ UNCHANGED <<audio_file, audio_segment, metadata, dirs>>

----------------------------------------------------------------------------
\* a call of AudioProcessor.split_audio with these arguments reaches the engine's loop
ProcessorLoops(method, output_dir, output_format, kw) ==
    /\ Guard(audio_segment, output_format, output_dir, dirs) = "none"
    /\ audio_file /= None
    /\ EntryError(method, kw, Length(audio_segment)) = "none"

\* the naming pattern is read in the loop only: the calls that end before it are explored
\* with the default pattern
PatternsRead(loops) == IF loops THEN SplitPatterns ELSE {DEFAULT_NAMING_PATTERN}

\* the guard pc = "idle" of the three operations a caller can start is stated before
\* their parameters are drawn
Next ==
    \/ Quiet /\ \E path \in Paths : LoadFile(path)
    \/ Quiet /\ \E method \in Methods, output_dir \in OutputDirs,
                   output_format \in OutputFormats :
                  \E kw \in Kwargs(method) :
                      \E naming_pattern \in PatternsRead(ProcessorLoops(method, output_dir,
                                                                        output_format, kw)) :
                          CallProcessor(method, output_dir, output_format, naming_pattern, kw)
    \/ Quiet /\ audio_file = None
             /\ \E method \in Methods, total \in Totals :
                  \E kw \in Kwargs(method) :
                      \E naming_pattern \in PatternsRead(EngineError(method, kw, total) = "none") :
                          CallEngine(method, kw, total, naming_pattern)
    \/ IterExport
    \/ IterNameFails
    \/ IterExportFails
    \/ IterSkip
    \/ IterBreak
    \/ LoopEnd
    \/ ThreadEmit
    \/ CallerContinues

Spec == Init /\ [][Next]_vars

----------------------------------------------------------------------------
(* The time functions of utils/helpers.py and utils/validators.py.  They are pure: a
   behaviour is one call, its arguments drawn in the initial state, beside a program that
   does nothing else. *)

procvars == <<audio_file, audio_segment, metadata, dirs, call, pc, i,
              output_files, written, attempts, progress, log, outcome, result, error, signal>>

TimeInit ==
    /\ ProcessorInit
    /\ ui = WindowInit
    /\ util_ret = NoReturn
    /\ \/ \E time_str \in TimeStrings :
             util_call = [fn |-> "parse_time", args |-> <<time_str>>]
       \/ \E seconds \in SecondsValues :
             util_call = [fn |-> "format_time", args |-> <<seconds>>]
       \/ \E time_str \in TimeStrings :
             util_call = [fn |-> "is_valid_time_format", args |-> <<time_str>>]
       \/ \E start_time \in RangeStrings, end_time \in RangeStrings,
             total_duration \in TotalDurations :
             util_call = [fn |-> "is_valid_time_range",
                          args |-> <<start_time, end_time, total_duration>>]

Pending(fn) == util_call.fn = fn /\ util_ret = NoReturn

CallParseTime ==
    /\ Pending("parse_time")
    /\ util_ret' = ParseTime(util_call.args[1])
    /\ UNCHANGED <<util_call, procvars, ui>>

CallFormatTime ==
    /\ Pending("format_time")
    /\ util_ret' = Return(FormatTime(util_call.args[1]))
    /\ UNCHANGED <<util_call, procvars, ui>>

CallIsValidTimeFormat ==
    /\ Pending("is_valid_time_format")
    /\ util_ret' = Return(IsValidTimeFormat(util_call.args[1]))
    /\ UNCHANGED <<util_call, procvars, ui>>

CallIsValidTimeRange ==
    /\ Pending("is_valid_time_range")
    /\ util_ret' = Return(IsValidTimeRange(util_call.args[1], util_call.args[2],
                                           util_call.args[3]))
    /\ UNCHANGED <<util_call, procvars, ui>>

TimeNext ==
    \/ CallParseTime
    \/ CallFormatTime
    \/ CallIsValidTimeFormat
    \/ CallIsValidTimeRange

TimeSpec == TimeInit /\ [][TimeNext]_vars

----------------------------------------------------------------------------
(* The naming functions of utils/validators.py and utils/helpers.py, each called once on
   inputs drawn from NamingPatterns, OriginalNames and PartArguments *)

NameInit ==
    /\ ProcessorInit
    /\ ui = WindowInit
    /\ util_ret = NoReturn
    /\ \/ \E pattern \in NamingPatterns :
             util_call = [fn |-> "is_valid_naming_pattern", args |-> <<pattern>>]
       \/ \E pattern \in NamingPatterns, original_name \in OriginalNames,
             part \in PartArguments :
             util_call = [fn |-> "generate_output_filename",
                          args |-> <<original_name, part[1], part[2], part[3], pattern,
                                     part[4]>>]

CallIsValidNamingPattern ==
    /\ Pending("is_valid_naming_pattern")
    /\ util_ret' = Return(IsValidNamingPattern(util_call.args[1]))
    /\ UNCHANGED <<util_call, procvars, ui>>

CallGenerateOutputFilename ==
    /\ Pending("generate_output_filename")
    /\ util_ret' = GenerateOutputFilename(util_call.args[1], util_call.args[2],
                                          util_call.args[3], util_call.args[4],
                                          util_call.args[5], util_call.args[6])
    /\ UNCHANGED <<util_call, procvars, ui>>

NameNext ==
    \/ CallIsValidNamingPattern
    \/ CallGenerateOutputFilename

NameSpec == NameInit /\ [][NameNext]_vars

----------------------------------------------------------------------------
(* The main window (ui/main_window.py, ui/file_input_tab.py, ui/config_tab.py,
   ui/process_tab.py) around the AudioProcessor it shares with its ProcessingThread.
   Every configuration the configuration page emits carries the key "overlap", so the
   thread's call of AudioProcessor.split_audio ends at the keyword clash before the loop. *)

\* the method settings ConfigTab.get_configuration puts in a configuration
UiMethodKwargs(method) ==
    CASE method = SPLIT_METHOD_EQUAL -> {[num_parts |-> DefaultNumParts]}
      [] method = SPLIT_METHOD_DURATION -> {[duration |-> DefaultDuration]}
      [] OTHER -> {[ranges |-> ScenarioRanges]}

\* the three methods of the configuration page
UiMethods == {SPLIT_METHOD_EQUAL, SPLIT_METHOD_DURATION, SPLIT_METHOD_CUSTOM}

\* the configurations the configuration page can emit: "overlap" is always among the keys
UiConfigs ==
    UNION {{[method |-> method, output_dir |-> output_dir, output_format |-> "mp3",
             naming_pattern |-> naming_pattern, kw |-> kw @@ [overlap |-> o]] :
               output_dir \in OutputDirs,
               naming_pattern \in {DEFAULT_NAMING_PATTERN},
               kw \in UiMethodKwargs(method),
               o \in {0, MaxOverlap}} : method \in UiMethods}

\* the naming patterns of these configurations that validate_configuration lets through
UiValidPatterns ==
    {c.naming_pattern : c \in {c \in UiConfigs :
                                  IsValidNamingPattern(c.naming_pattern) = <<TRUE, None>>}}

\* the processor's call, loop and observation variables
callvars == <<call, pc, i, output_files, written, attempts, progress, log,
              outcome, result, error, signal>>

\* FileInputTab.load_file(path) followed by MainWindow.on_file_loaded: a file that does not
\* exist is reported without calling the processor; a successful load enables the
\* configuration page
FileInputLoad(path) ==
    /\ IF Files[path].exists
       THEN LoadFileFields(path)
       ELSE UNCHANGED <<audio_file, audio_segment, metadata>>
    /\ ui' = IF Files[path].exists /\ Files[path].ext \in SUPPORTED_INPUT_FORMATS
                  /\ Files[path].decodes
             THEN [ui EXCEPT !.config_page = TRUE]
             ELSE ui
    /\ UNCHANGED <<dirs, callvars, util_call, util_ret>>

\* File > Open and the recent-files menu: MainWindow.open_file_dialog / open_recent_file ->
\* MainWindow.load_file.  The menu actions are enabled at all times.
UiOpenFile(path) ==
    /\ path /= ""
    /\ FileInputLoad(path)

\* the browse button (or a drop) on the file page, usable while the page is enabled
UiBrowseFile(path) ==
    /\ ui.file_page
    /\ FileInputLoad(path)

\* ConfigTab.apply_configuration: validate_configuration (is_valid_output_directory creates
\* the directory), then MainWindow.on_config_changed -> ProcessTab.set_configuration
UiApplyConfiguration(config) ==
    /\ ui.config_page
    /\ config.output_dir /= ""
    /\ config.output_dir \in dirs \cup Creatable
    /\ config.naming_pattern \in UiValidPatterns
    /\ dirs' = dirs \cup {config.output_dir}
    /\ ui' = [ui EXCEPT !.config = config, !.process_page = TRUE]
    /\ UNCHANGED <<audio_file, audio_segment, metadata, callvars, util_call, util_ret>>

\* ProcessTab.start_processing: the process button is disabled, MainWindow.
\* on_processing_started disables the file and configuration pages, a ProcessingThread
\* is created with the configuration and started
UiStartProcessing ==
    /\ ui.process_page
    /\ ui.process_button
    /\ ui' = [ui EXCEPT !.process_button = FALSE, !.file_page = FALSE,
                        !.config_page = FALSE, !.thread = "started",
                        !.thread_config = ui.config]
    /\ UNCHANGED <<audio_file, audio_segment, metadata, dirs, callvars, util_call, util_ret>>

\* ProcessingThread.run: the call of AudioProcessor.split_audio with the configuration
ThreadRun ==
    /\ ui.thread = "started"
    /\ SplitAudio(ui.thread_config.method, ui.thread_config.output_dir,
                  ui.thread_config.output_format, ui.thread_config.naming_pattern,
                  ui.thread_config.kw)
    /\ ui' = [ui EXCEPT !.thread = "running"]
    /\ UNCHANGED <<util_call, util_ret>>

\* ProcessTab.on_processing_finished / on_processing_error, then MainWindow's: the process
\* button and the file and configuration pages are enabled again
UiProcessingHandled ==
    /\ ui.thread = "running"
    /\ pc = "done"
    /\ pc' = "idle"
    /\ ui' = [ui EXCEPT !.process_button = TRUE, !.file_page = TRUE,
                        !.config_page = TRUE, !.thread = "none",
                        !.thread_config = NoConfig]
    /\ call' = NoCall
    /\ FreshObservations
    /\ progress' = <<>>
    /\ log' = <<>>
    /\ UNCHANGED <<audio_file, audio_segment, metadata, dirs, util_call, util_ret>>

UiNext ==
    \/ \E path \in Paths : UiOpenFile(path)
    \/ \E path \in Paths : UiBrowseFile(path)
    \/ \E config \in UiConfigs : UiApplyConfiguration(config)
    \/ UiStartProcessing
    \/ ThreadRun
    \/ ThreadEmit
    \/ UiProcessingHandled

UiSpec == Init /\ [][UiNext]_vars

----------------------------------------------------------------------------
(* Vocabulary of the properties *)

GuardMessages == {"No audio file loaded", "Unsupported output format",
                  "Could not create output directory"}

\* the engine's parameter failures: num_parts < 2, duration <= 0, empty ranges
ParameterErrors == {"ValueError: Number of parts must be at least 2",
                    "ValueError: Duration must be greater than 0",
                    "ValueError: No time ranges specified"}

\* the call has ended (its outcome is known to the caller)
Ended == pc \in {"returned", "done"}

\* AudioProcessor.split_audio ended at one of its three guards
GuardStopped == Ended /\ call.via = "processor" /\ log /= <<>> /\ log[1] \in GuardMessages

\* the engine ran its loop to the end and returned its list
EngineCompleted == Ended /\ outcome = "returned" /\ error = "none" /\ ~GuardStopped

Elements(seq) == {seq[k] : k \in 1 .. Len(seq)}

RECURSIVE SumLengths(_)
SumLengths(seq) ==
    IF seq = <<>> THEN 0 ELSE (Head(seq).end - Head(seq).start) + SumLengths(Tail(seq))

\* ceil(a / b) for a >= 0, b > 0
CeilDiv(a, b) == (a + b - 1) \div b

----------------------------------------------------------------------------
\* C1: for n >= 2 and total > 0, split_equal_parts with overlap 0 exports exactly n
\* windows numbered 1..n; window 1 starts at 0, window n ends at total, each window
\* starts where the previous one ended, and the lengths sum to total; 125000 ms in 4
\* parts gives [0,31250), [31250,62500), [62500,93750), [93750,125000).
\* (Window bounds are numerators over den = n.)
C1_EqualPartsPartition ==
    (EngineCompleted /\ call.method = SPLIT_METHOD_EQUAL /\ Overlap(call.kw) = 0
        /\ NumParts(call.kw) >= 2 /\ call.total > 0)
    => LET n == NumParts(call.kw)
       IN /\ Len(result) = n
          /\ Elements(result) = written
          /\ \A k \in 1 .. n : result[k].number = k /\ result[k].den = n
          /\ result[1].start = 0
          /\ result[n].end = call.total * n
          /\ \A k \in 1 .. n - 1 : result[k + 1].start = result[k].end
          /\ SumLengths(result) = call.total * n
          /\ (call.total = 125000 /\ n = 4)
                => /\ result[1].end = 31250 * n
                   /\ result[2].end = 62500 * n
                   /\ result[3].end = 93750 * n

C1_Witness ==
    /\ EngineCompleted /\ call.method = SPLIT_METHOD_EQUAL /\ Overlap(call.kw) = 0
    /\ call.total = 125000 /\ NumParts(call.kw) = 4 /\ Len(result) = 4

\* C2 (as claimed): for d > 0 and total > 0, split_fixed_duration with overlap 0 exports
\* ceil(total / (d * 1000)) windows and the last one ends at total, so a trailing
\* remainder shorter than d is exported as its own segment.
C2_FixedDurationCovers ==
    (EngineCompleted /\ call.method = SPLIT_METHOD_DURATION /\ Overlap(call.kw) = 0
        /\ Duration(call.kw) > 0 /\ call.total > 0)
    => /\ Len(result) = CeilDiv(call.total, Duration(call.kw) * MsPerSecond)
       /\ result[Len(result)].end = call.total

\* C3: with overlap 0 every window split_fixed_duration exports except possibly the
\* last has length exactly d * 1000 ms; the last has a length in (0, d * 1000].
C3_FixedDurationLengths ==
    (call.method = SPLIT_METHOD_DURATION /\ Overlap(call.kw) = 0 /\ Duration(call.kw) > 0)
    => /\ \A k \in 1 .. Len(output_files) - 1 :
             output_files[k].end - output_files[k].start = Duration(call.kw) * MsPerSecond
       /\ \A seg \in written :
             /\ seg.end - seg.start > 0
             /\ seg.end - seg.start <= Duration(call.kw) * MsPerSecond
       /\ Elements(output_files) = written

C3_Witness ==
    /\ EngineCompleted /\ call.method = SPLIT_METHOD_DURATION /\ Overlap(call.kw) = 0
    /\ Duration(call.kw) = 1 /\ call.total = 2500 /\ Len(result) >= 2

\* C4: under the three policies and every overlap >= 0, every window that is sliced
\* and exported satisfies 0 <= start < end <= total and start < total.
C4_ExportedWindowsProper ==
    \A seg \in written :
        /\ 0 <= seg.start
        /\ seg.start < seg.end
        /\ seg.end <= call.total * seg.den
        /\ seg.start < call.total * seg.den

C4_Witness ==
    /\ call.method = SPLIT_METHOD_CUSTOM /\ Ranges(call.kw) = ScenarioRanges
    /\ call.total = 125000
    /\ \E seg \in written : seg.number = 3 /\ seg.end = 125000

\* C5: split_custom_ranges numbers each exported segment with the 1-based position of
\* its range in the input list (skipped ranges leave gaps); the ranges
\* [(10,20),(15,12),(100,200)] on a 125 s track export exactly segments 1 and 3, the
\* second with window [100000,125000).
C5_CustomNumbering ==
    (call.method = SPLIT_METHOD_CUSTOM)
    => /\ \A k \in 1 .. Len(output_files) :
             LET seg == output_files[k]
             IN /\ seg.number \in 1 .. Len(Ranges(call.kw))
                /\ seg.start = Max(0, Ranges(call.kw)[seg.number][1] * 1000)
                /\ seg.end = Min(call.total, Ranges(call.kw)[seg.number][2] * 1000)
                /\ k > 1 => output_files[k - 1].number < seg.number
       /\ (EngineCompleted /\ Ranges(call.kw) = ScenarioRanges /\ call.total = 125000)
             => result = <<[number |-> 1, start |-> 10000, end |-> 20000, den |-> 1],
                           [number |-> 3, start |-> 100000, end |-> 125000, den |-> 1]>>

C5_Witness ==
    /\ EngineCompleted /\ call.method = SPLIT_METHOD_CUSTOM
    /\ Ranges(call.kw) = ScenarioRanges /\ call.total = 125000 /\ Len(result) = 2

\* a custom range is degenerate: its start is at or past its clamped end, or past the total
Degenerate(range, total) ==
    \/ Max(0, range[1] * 1000) >= Min(total, range[2] * 1000)
    \/ Max(0, range[1] * 1000) >= total

\* C6: split_custom_ranges with a non-empty list skips the degenerate ranges without
\* failing: the exported segments are exactly the non-degenerate ranges, whatever
\* stands before or after them.
C6_CustomSkipsDegenerate ==
    (EngineCompleted /\ call.method = SPLIT_METHOD_CUSTOM)
    => LET ranges == Ranges(call.kw)
           good == {k \in 1 .. Len(ranges) : ~Degenerate(ranges[k], call.total)}
       IN /\ ranges /= <<>>
          /\ Len(result) = Cardinality(good)
          /\ {seg.number : seg \in Elements(result)} = good
          /\ Elements(result) = written

C6_Witness ==
    /\ EngineCompleted /\ call.method = SPLIT_METHOD_CUSTOM
    /\ call.total = 125000 /\ Ranges(call.kw) = <<(<<130, 140>>), (<<10, 20>>)>>
    /\ Len(result) = 1 /\ result[1].number = 2

C2_CounterexampleInput ==
    /\ EngineCompleted /\ call.method = SPLIT_METHOD_DURATION /\ Overlap(call.kw) = 0
    /\ Duration(call.kw) = 60 /\ call.total = 125000

\* C7: when the export of segment k throws during AudioProcessor.split_audio (or the
\* engine raises any exception), the call returns the empty list, not the paths of the
\* segments before k; no export is attempted after k; the files exported before k stay
\* on disk.
C7_ExportFailureReturnsNothing ==
    (Ended /\ call.via = "processor" /\ error /= "none" /\ outcome = "returned")
    => /\ result = <<>>
       /\ error = "ExportError"
            => /\ attempts /= <<>>
               /\ attempts[Len(attempts)] = i + 1
               /\ \A k \in 1 .. Len(attempts) - 1 :
                     /\ attempts[k] < i + 1
                     /\ \E seg \in written : seg.number = attempts[k]
               /\ Cardinality(written) = Len(attempts) - 1
               /\ written = Elements(output_files)

C7_Witness ==
    /\ pc = "done" /\ call.via = "processor" /\ error = "ExportError"
    /\ Len(attempts) = 3 /\ Cardinality(written) = 2 /\ result = <<>>

\* C8 (as claimed): a parameter failure of the engine is propagated by
\* AudioProcessor.split_audio to its caller as a failure: the call does not return
\* normally, and ProcessingThread reports processing_error.
C8_ParameterFailurePropagates ==
    (Ended /\ call.via = "processor" /\ error \in ParameterErrors)
    => /\ outcome = "raised"
       /\ pc = "done" => signal = "processing_error"

\* C8 (amended): a parameter failure of the engine is caught by
\* AudioProcessor.split_audio: nothing is exported, the error is logged, the last
\* progress event is 0 and the empty list is returned, so ProcessingThread emits
\* processing_finished; only a direct caller of the engine sees the exception.
C8_ParameterFailureSwallowed ==
    (Ended /\ error \in ParameterErrors)
    => IF call.via = "processor"
       THEN /\ outcome = "returned"
            /\ result = <<>>
            /\ written = {} /\ attempts = <<>>
            /\ log = <<"Error splitting audio">>
            /\ progress = <<PROGRESS_AUDIO_ANALYSIS, PROGRESS_SPLITTING_START, 0>>
            /\ pc = "done" => signal = "processing_finished"
       ELSE /\ outcome = "raised"
            /\ written = {} /\ attempts = <<>>

C8_Witness ==
    /\ pc = "done" /\ call.via = "processor" /\ signal = "processing_finished"
    /\ error = "ValueError: Number of parts must be at least 2"

\* the output directory of the call can neither be found nor created
DirectoryFails == call.output_dir = "" \/ call.output_dir \notin (dirs \cup Creatable)

\* C9: AudioProcessor.split_audio returns the empty list, without invoking the engine,
\* exporting a file or emitting a progress event, whenever no audio is loaded, the
\* output format is unsupported or the output directory cannot be ensured; the three
\* guards are checked in that order (a later guard neither logs nor creates a directory
\* when an earlier one stops the call).
C9_GuardsReturnEmpty ==
    (Ended /\ call.via = "processor"
        /\ (Falsy(audio_segment) \/ call.output_format \notin SUPPORTED_OUTPUT_FORMATS
               \/ DirectoryFails))
    => /\ outcome = "returned" /\ result = <<>>
       /\ progress = <<>>
       /\ written = {} /\ attempts = <<>> /\ output_files = <<>> /\ i = 0
       /\ error = "none"
       /\ log = << IF Falsy(audio_segment) THEN "No audio file loaded"
                   ELSE IF call.output_format \notin SUPPORTED_OUTPUT_FORMATS
                        THEN "Unsupported output format"
                        ELSE "Could not create output directory" >>
       /\ pc = "done" => signal = "processing_finished"

C9_Witness ==
    /\ pc = "done" /\ call.via = "processor"
    /\ Falsy(audio_segment) /\ call.output_format = "exe" /\ call.output_dir = "denied/x"
    /\ log = <<"No audio file loaded">>

\* C10 (as claimed): AudioProcessor.split_audio returns an empty list only when one of
\* the three guards stopped the call.
C10_EmptyOnlyFromGuards ==
    (Ended /\ call.via = "processor" /\ outcome = "returned" /\ result = <<>>)
    => GuardStopped

\* every range of the call's list is skipped by split_custom_ranges
AllRangesSkipped ==
    /\ call.method = SPLIT_METHOD_CUSTOM
    /\ \A k \in 1 .. Len(Ranges(call.kw)) : Degenerate(Ranges(call.kw)[k], call.total)

\* C10 (amended): AudioProcessor.split_audio returns an empty list exactly when a guard
\* stopped the call, or an exception was raised inside its try block (an engine
\* parameter error, the TypeError of a second "overlap" keyword, a failed export), or
\* the policy is custom ranges and every range was skipped; a call that passes the
\* guards and raises nothing under equal parts or fixed duration returns a non-empty list.
C10_EmptyResultCauses ==
    (Ended /\ call.via = "processor" /\ outcome = "returned")
    => (result = <<>>) <=> (GuardStopped \/ error /= "none" \/ AllRangesSkipped)

C10_Witness ==
    /\ pc = "done" /\ call.via = "processor" /\ outcome = "returned" /\ result = <<>>
    /\ ~GuardStopped /\ error = "none" /\ AllRangesSkipped
    /\ progress[Len(progress)] = PROGRESS_FILE_EXPORT

----------------------------------------------------------------------------
NonDecreasing(seq) == \A k \in 1 .. Len(seq) - 1 : seq[k] <= seq[k + 1]

Front(seq) == SubSeq(seq, 1, Len(seq) - 1)

\* the call is an AudioProcessor.split_audio invocation that passed the three guards
ProcessorEntered == pc /= "idle" /\ call.via = "processor" /\ ~GuardStopped

\* C11 (as stated): within one invocation of AudioProcessor.split_audio the percent values
\* delivered to the progress callback never decrease, on every path, failures included.
C11_ProgressNonDecreasing ==
    call.via = "processor" => NonDecreasing(progress)

\* C11 (amended): the percent values never decrease while the invocation runs and when it
\* completes; an invocation that ends in an engine or export failure delivers one more
\* event, percent 0, after a non-decreasing sequence that starts 20, 30.
C11_ProgressMonotoneUntilFailure ==
    call.via = "processor" =>
        IF error = "none"
        THEN NonDecreasing(progress)
        ELSE outcome = "returned" =>
                /\ Len(progress) >= 3
                /\ progress[Len(progress)] = 0
                /\ NonDecreasing(Front(progress))
                /\ progress[1] = PROGRESS_AUDIO_ANALYSIS
                /\ progress[2] = PROGRESS_SPLITTING_START

\* an export failure in the third iteration: 20, 30, then 30, 50, 70 of the loop, then 0
C11_Witness ==
    /\ ProcessorEntered
    /\ error = "ExportError"
    /\ Len(attempts) = 3
    /\ Len(progress) = 6
    /\ progress[5] > progress[4]
    /\ progress[6] = 0

----------------------------------------------------------------------------
\* the engine's loop was entered by the call in flight (or the last call)
LoopEntered ==
    /\ pc /= "idle"
    /\ call.via /= "none"
    /\ ~GuardStopped
    /\ error \in {"none", "ExportError"}

StrictlyIncreasing(seq) == \A k \in 1 .. Len(seq) - 1 : seq[k] < seq[k + 1]

IsPrefix(s, t) == Len(s) <= Len(t) /\ s = SubSeq(t, 1, Len(s))

Numbers(files) == [k \in 1 .. Len(files) |-> files[k].number]

\* the iterations, among the first n of a policy's loop, that produce a segment: those
\* neither skipped nor at or after a break
ProducedBy(method, kw, total, n) ==
    {k \in 0 .. n - 1 :
        /\ ~Skips(method, kw, total, k)
        /\ ~\E j \in 0 .. k : Breaks(method, kw, total, j)}

\* C12: segments are exported one at a time in strictly increasing part-number order; at
\* every point of a split, an aborted one included, the segments exported so far are the
\* ones the policy produces in its first i iterations, in loop order (a prefix of the
\* sequence it produces in all its iterations), and the returned list is in that order.
C12_ExportedIsPrefix ==
    LoopEntered =>
        /\ StrictlyIncreasing(attempts)
        /\ StrictlyIncreasing(Numbers(output_files))
        /\ Elements(Numbers(output_files))
              = {k + 1 : k \in ProducedBy(call.method, call.kw, call.total, i)}
        /\ \A p \in 1 .. Len(output_files) :
              output_files[p]
                 = Segment(call.method, call.kw, call.total, output_files[p].number - 1)
        /\ written = Elements(output_files)
        /\ \/ attempts = Numbers(output_files)
           \/ /\ error = "ExportError"
              /\ Front(attempts) = Numbers(output_files)
        /\ (outcome = "returned" /\ error = "none") => result = output_files

\* the scenario's ranges, aborted by a failing export of part 3 after part 1 was exported
\* and part 2 was skipped
C12_Witness ==
    /\ LoopEntered
    /\ call.method = SPLIT_METHOD_CUSTOM
    /\ error = "ExportError"
    /\ Numbers(output_files) = <<1>>
    /\ attempts = <<1, 3>>
    /\ ProducedBy(call.method, call.kw, call.total,
                  NumIter(call.method, call.kw, call.total)) = {0, 2}

----------------------------------------------------------------------------
\* the step of split_fixed_duration, duration_ms - overlap_ms
FixedStep(kw) == Duration(kw) * MsPerSecond - Overlap(kw) * MsPerSecond

\* the invalid-parameter errors (ValueError) the engine raises
ValueErrors == ParameterErrors \cup {"ValueError: Part duration is too small",
                                    "ValueError: Unknown splitting method"}

\* a call of split_fixed_duration has ended for its caller
FixedDurationEnded ==
    /\ Ended
    /\ call.method = SPLIT_METHOD_DURATION
    /\ ~GuardStopped
    /\ error /= "TypeError: got multiple values for keyword argument 'overlap'"

\* C13: split_fixed_duration fails with an invalid-parameter error (a ValueError) and
\* exports nothing whenever duration <= 0 or the step duration*1000 - overlap*1000 is <= 0.
C13_FixedDurationRejectsBadStep ==
    (FixedDurationEnded /\ (Duration(call.kw) <= 0 \/ FixedStep(call.kw) <= 0)) =>
        /\ error \in ValueErrors
        /\ written = {}
        /\ attempts = <<>>

\* duration 1 s, overlap 2 s on a 2500 ms audio, called directly: the step is -1000, the
\* call returns normally and has exported the window [0, 1000)
C13_NegativeStepExports ==
    /\ FixedDurationEnded
    /\ call.via = "engine"
    /\ call.total = 2500
    /\ Duration(call.kw) = 1
    /\ Overlap(call.kw) = 2
    /\ outcome = "returned"
    /\ error = "none"
    /\ written = {[number |-> 1, start |-> 0, end |-> 1000, den |-> 1]}

----------------------------------------------------------------------------
\* the engine's split_audio was called: directly, or by an AudioProcessor.split_audio that
\* passed its guards and whose call expression was well-formed
EngineEntered ==
    /\ pc /= "idle"
    /\ call.via /= "none"
    /\ ~GuardStopped
    /\ error \notin {"TypeError: got multiple values for keyword argument 'overlap'",
                     "TypeError: expected str, bytes or os.PathLike object"}

\* the parameters the engine rejects: equal parts with num_parts < 2 or a part duration
\* <= 0, fixed duration with duration <= 0, custom ranges with no range, an unknown method
RejectedParameters(method, kw, total) ==
    CASE method = SPLIT_METHOD_EQUAL -> NumParts(kw) < 2 \/ total <= 0
      [] method = SPLIT_METHOD_DURATION -> Duration(kw) <= 0
      [] method = SPLIT_METHOD_CUSTOM -> Ranges(kw) = <<>>
      [] OTHER -> TRUE

\* C14: when the engine rejects its parameters the error is raised before any segment is
\* sliced or exported and before any per-segment progress event: a direct caller has seen
\* no progress event at all, the orchestrator's callback only 20, 30 and the final 0.
C14_ParameterErrorsFailFast ==
    (EngineEntered /\ RejectedParameters(call.method, call.kw, call.total)) =>
        /\ error \in ValueErrors
        /\ pc /= "loop"
        /\ i = 0
        /\ written = {}
        /\ attempts = <<>>
        /\ output_files = <<>>
        /\ result = <<>>
        /\ IF call.via = "engine"
           THEN outcome = "raised" /\ progress = <<>>
           ELSE progress = <<PROGRESS_AUDIO_ANALYSIS, PROGRESS_SPLITTING_START, 0>>

\* equal parts with num_parts = 1 on a 125 s audio, called directly
C14_Witness ==
    /\ EngineEntered
    /\ call.via = "engine"
    /\ call.method = SPLIT_METHOD_EQUAL
    /\ NumParts(call.kw) = 1
    /\ call.total = 125000
    /\ error = "ValueError: Number of parts must be at least 2"
    /\ outcome = "raised"
    /\ progress = <<>>

----------------------------------------------------------------------------
\* the list the engine returns for a call whose parameters it accepts and whose exports
\* succeed
IsEngineResult(files, method, kw, total) ==
    /\ StrictlyIncreasing(Numbers(files))
    /\ Elements(Numbers(files))
          = {k + 1 : k \in ProducedBy(method, kw, total, NumIter(method, kw, total))}
    /\ \A p \in 1 .. Len(files) :
          files[p] = Segment(method, kw, total, files[p].number - 1)

\* C15: AudioProcessor.split_audio forwards its overlap to the engine: for every method and
\* every overlap >= 0 passed as the keyword argument "overlap" (or omitted, meaning 0) the
\* call returns the segments the engine's split_audio returns for that overlap.
C15_OverlapForwarded ==
    (/\ call.via = "processor"
     /\ Ended
     /\ ~GuardStopped
     /\ error /= "ExportError"
     /\ EngineError(call.method, call.kw, call.total) = "none") =>
        /\ error = "none"
        /\ outcome = "returned"
        /\ IsEngineResult(result, call.method, call.kw, call.total)

\* song.mp3 split in 2 equal parts with overlap=0 passed as a keyword, as the UI does: the
\* call expression fails, nothing is exported and the empty list is returned
C15_KeywordClashReturnsEmpty ==
    /\ call.via = "processor"
    /\ Ended
    /\ call.method = SPLIT_METHOD_EQUAL
    /\ NumParts(call.kw) = 2
    /\ Overlap(call.kw) = 0
    /\ call.total = 125000
    /\ error = "TypeError: got multiple values for keyword argument 'overlap'"
    /\ written = {}
    /\ result = <<>>
    /\ progress = <<PROGRESS_AUDIO_ANALYSIS, PROGRESS_SPLITTING_START, 0>>

----------------------------------------------------------------------------
\* a call of split_equal_parts with an overlap of o > 0 seconds has run to its end
EqualOverlapCompleted ==
    /\ EngineCompleted
    /\ call.method = SPLIT_METHOD_EQUAL
    /\ Overlap(call.kw) > 0

\* C16: in split_equal_parts with overlap o > 0, window k (0-based) is
\* [max(0, k*part - o*1000), min(total, (k+1)*part + o*1000)) in milliseconds, so adjacent
\* windows not clamped at an edge intersect over exactly 2*o*1000 ms, the first window
\* starts at 0 and the last ends at total.  (Bounds are numerators over den = num_parts.)
C16_EqualPartsOverlapWindows ==
    EqualOverlapCompleted =>
        LET n == NumParts(call.kw)
            o == Overlap(call.kw) * MsPerSecond
            total == call.total
        IN  /\ Len(output_files) = n
            /\ \A k \in 0 .. n - 1 :
                  /\ output_files[k + 1].start = Max(0, k * total - o * n)
                  /\ output_files[k + 1].end = Min(total * n, (k + 1) * total + o * n)
            /\ \A k \in 0 .. n - 2 :
                  (/\ output_files[k + 1].end < total * n
                   /\ output_files[k + 2].start > 0) =>
                      output_files[k + 1].end - output_files[k + 2].start = 2 * o * n
            /\ output_files[1].start = 0
            /\ output_files[n].end = total * n

\* 125000 ms in 4 parts with overlap 1 s, called directly: the second window is
\* [31249, 62501), widened by 1 ms on each side (numerators over 4)
C16_OverlapTakenAsMilliseconds ==
    /\ EqualOverlapCompleted
    /\ call.total = 125000
    /\ NumParts(call.kw) = 4
    /\ Overlap(call.kw) = 1
    /\ output_files[2] = [number |-> 2, start |-> 31249 * 4, end |-> 62501 * 4, den |-> 4]
    /\ output_files[2].end - output_files[3].start = 2 * 4

----------------------------------------------------------------------------
(* Vocabulary of the time properties *)

\* one or more digits, a colon, and exactly two digits in 00..59
WellFormed(s) ==
    /\ Len(s) >= 4
    /\ \A k \in 1 .. Len(s) - 3 : s[k] \in Digits
    /\ s[Len(s) - 2] = ":"
    /\ s[Len(s) - 1] \in TensOfSeconds
    /\ s[Len(s)] \in Digits

\* a well-formed string followed by one line feed
WellFormedThenLineFeed(s) ==
    s /= <<>> /\ s[Len(s)] = "\n" /\ WellFormed(Front(s))

\* the seconds a well-formed string denotes
Denotes(s) ==
    IntOfDigits(SubSeq(s, 1, Len(s) - 3)) * 60 + IntOfDigits(SubSeq(s, Len(s) - 1, Len(s)))

\* the call of fn drawn in the initial state has been made
Returned(fn) == util_call.fn = fn /\ util_ret /= NoReturn

InvalidFormat == Raise("ValueError: Invalid time format")

----------------------------------------------------------------------------
\* a well-formed string as format_time writes it: two minute digits, or more without a
\* leading zero
Canonical(s) ==
    /\ WellFormed(s)
    /\ Len(s) = 5 \/ (Len(s) > 5 /\ s[1] /= "0")

\* C18 (as stated): format_time(parse_time(s)) = s for every string s parse_time accepts,
\* and parse_time(format_time(t)) = t for every whole number t >= 0 of seconds.
C18_RoundTrip ==
    /\ (Returned("parse_time") /\ util_ret.kind = "return") =>
            FormatTime(util_ret.value) = util_call.args[1]
    /\ Returned("format_time") =>
            ParseTime(util_ret.value) = Return(util_call.args[1])

\* C18 (amended): for a string s parse_time accepts, format_time(parse_time(s)) is the
\* canonical string denoting the same seconds; it is s exactly when s is canonical (at
\* least two minute digits, no leading zero beyond two digits, no line feed, not empty).
\* parse_time(format_time(t)) = t for every whole number t >= 0 of seconds.
C18_RoundTripOnCanonical ==
    /\ (Returned("parse_time") /\ util_ret.kind = "return") =>
          LET s == util_call.args[1]
              back == FormatTime(util_ret.value)
          IN  /\ Canonical(back)
              /\ ParseTime(back) = util_ret
              /\ (back = s) <=> Canonical(s)
    /\ Returned("format_time") =>
          /\ Canonical(util_ret.value)
          /\ ParseTime(util_ret.value) = Return(util_call.args[1])

\* parse_time("1:30") has returned 90, which format_time writes "01:30"
C18_Witness ==
    /\ Returned("parse_time")
    /\ util_call.args[1] = <<"1", ":", "3", "0">>
    /\ util_ret = Return(90)
    /\ FormatTime(90) = <<"0", "1", ":", "3", "0">>

----------------------------------------------------------------------------
\* C19: is_valid_time_format returns True only for strings of the shape MM:SS with at
\* least two minute digits and two second digits in 00..59; it returns False for "",
\* "1:30", "01:5", "01:60" and "01-30"; and it returns True exactly for the strings
\* parse_time accepts.
C19_TimeFormatShape ==
    Returned("is_valid_time_format") =>
        LET s == util_call.args[1]
        IN  /\ util_ret.value => (WellFormed(s) /\ Len(s) >= 5)
            /\ s \in {<<>>, <<"1", ":", "3", "0">>, <<"0", "1", ":", "5">>,
                      <<"0", "1", ":", "6", "0">>, <<"0", "1", "-", "3", "0">>}
                  => ~util_ret.value
            /\ util_ret.value <=> (ParseTime(s).kind = "return")

\* is_valid_time_format("1:30") has returned True
C19_OneDigitMinutesAccepted ==
    /\ Returned("is_valid_time_format")
    /\ util_call.args[1] = <<"1", ":", "3", "0">>
    /\ util_ret = Return(TRUE)

----------------------------------------------------------------------------
\* what C20 says is_valid_time_range returns
RangeVerdict(start_time, end_time, total_duration) ==
    IF ~WellFormed(start_time) THEN <<FALSE, "Invalid start time format">>
    ELSE IF ~WellFormed(end_time) THEN <<FALSE, "Invalid end time format">>
    ELSE IF Denotes(start_time) >= Denotes(end_time)
         THEN <<FALSE, "Start time must be less than end time">>
    ELSE IF Denotes(end_time) > total_duration
         THEN <<FALSE, "End time exceeds audio duration">>
    ELSE <<TRUE, None>>

\* C20: is_valid_time_range(start, end, total) returns valid exactly when both strings are
\* well-formed, start < end and end <= total; otherwise it returns invalid with the first
\* applicable reason in the order start format, end format, ordering, out of bounds.
C20_TimeRangeVerdict ==
    Returned("is_valid_time_range") =>
        util_ret.value
            = RangeVerdict(util_call.args[1], util_call.args[2], util_call.args[3])

\* is_valid_time_range("00:00", "01:00\n", 120) has returned (True, None)
C20_LineFeedAccepted ==
    /\ Returned("is_valid_time_range")
    /\ util_call.args = <<(<<"0", "0", ":", "0", "0">>),
                          (<<"0", "1", ":", "0", "0", "\n">>), 120>>
    /\ util_ret = Return(<<TRUE, None>>)

----------------------------------------------------------------------------
\* C29: after any sequence of load_file calls the processor is consistent: audio_file,
\* audio_segment and metadata are all unset, or audio_segment and metadata are the ones
\* loaded from the path in audio_file; a failed load never leaves audio_file naming a file
\* other than the one audio_segment was decoded from.
C29_LoadStateConsistent ==
    \/ /\ audio_file = None
       /\ audio_segment = NoSegment
       /\ metadata = None
    \/ /\ audio_file \in Paths
       /\ metadata = audio_file
       /\ audio_segment = <<Files[audio_file].length>>

\* song.mp3 was loaded, then load_file("notes.txt") failed on the extension: audio_file
\* names notes.txt beside the segment and metadata of song.mp3
C29_StalePathAfterUnsupported ==
    /\ audio_file = "notes.txt"
    /\ metadata = "song.mp3"
    /\ audio_segment = <<Files["song.mp3"].length>>

----------------------------------------------------------------------------
\* a call of AudioProcessor.split_audio with audio loaded has reached its format guard
FormatGuardReached == call.via = "processor" /\ Ended /\ call.total > 0

FormatGuardRejected == GuardStopped /\ log[1] = "Unsupported output format"

\* C27: the format guard of AudioProcessor.split_audio accepts exactly the format strings
\* is_valid_output_format accepts, upper-case spellings such as "MP3" included.
C27_FormatChecksAgree ==
    FormatGuardReached =>
        (~FormatGuardRejected <=> IsValidOutputFormat(call.output_format))

\* split_audio(..., output_format="MP3") on a loaded file stopped at the format guard,
\* while is_valid_output_format("MP3") is True
C27_UpperCaseRejectedByGuard ==
    /\ FormatGuardReached
    /\ call.output_format = "MP3"
    /\ FormatGuardRejected
    /\ result = <<>>
    /\ IsValidOutputFormat("MP3")

----------------------------------------------------------------------------
\* split_fixed_duration returned normally for 0 < overlap < duration on a non-empty audio
FixedOverlapCompleted ==
    /\ EngineCompleted
    /\ call.method = SPLIT_METHOD_DURATION
    /\ 0 < Overlap(call.kw)
    /\ Overlap(call.kw) < Duration(call.kw)
    /\ call.total > 0

\* the windows of seq, taken in order, leave no millisecond of [0, total) out
CoversTimeline(seq, total) ==
    /\ seq /= <<>>
    /\ seq[1].start = 0
    /\ \A k \in 1 .. Len(seq) - 1 : seq[k + 1].start <= seq[k].end
    /\ seq[Len(seq)].end = total

\* C22: in split_fixed_duration with 0 < overlap < duration, window i+1 starts exactly
\* (duration - overlap) * 1000 ms after window i, every non-final window has length
\* duration * 1000 ms, and the exported windows together cover [0, total_duration_ms).
C22_FixedOverlapWindows ==
    FixedOverlapCompleted =>
        /\ \A k \in 1 .. Len(result) - 1 :
              /\ result[k + 1].start = result[k].start + FixedStep(call.kw)
              /\ result[k].end - result[k].start = Duration(call.kw) * MsPerSecond
        /\ CoversTimeline(result, call.total)

\* duration 60 s, overlap 1 s on a 125000 ms audio: the two windows [0, 60000) and
\* [59000, 119000) are exported and the last six seconds are in no window
C22_OverlapTailDropped ==
    /\ FixedOverlapCompleted
    /\ call.total = 125000
    /\ Duration(call.kw) = 60
    /\ Overlap(call.kw) = 1
    /\ Len(result) = 2
    /\ result[1].start = 0 /\ result[1].end = 60000
    /\ result[2].start = 59000 /\ result[2].end = 119000

----------------------------------------------------------------------------
\* is_valid_time_range has accepted the range of its arguments
RangeAccepted == Returned("is_valid_time_range") /\ util_ret = Return(<<TRUE, None>>)

\* the kwargs that hand the accepted range, in seconds, to split_custom_ranges
AcceptedRangeKw ==
    [ranges |-> <<(<<SecondsOf(util_call.args[1]), SecondsOf(util_call.args[2])>>)>>]

\* the window split_custom_ranges exports for the accepted range on an audio whose
\* length is the total duration the range was validated against
AcceptedRangeWindow ==
    Segment(SPLIT_METHOD_CUSTOM, AcceptedRangeKw, util_call.args[3] * MsPerSecond, 0)

\* C28: every range is_valid_time_range accepts against the audio's total duration is
\* exported by split_custom_ranges, never skipped, and its window is exactly
\* [start * 1000, end * 1000) ms, with no clamping.
C28_AcceptedRangeExportedUnclamped ==
    RangeAccepted =>
        /\ EngineError(SPLIT_METHOD_CUSTOM, AcceptedRangeKw,
                       util_call.args[3] * MsPerSecond) = "none"
        /\ ~Skips(SPLIT_METHOD_CUSTOM, AcceptedRangeKw, util_call.args[3] * MsPerSecond, 0)
        /\ ~Breaks(SPLIT_METHOD_CUSTOM, AcceptedRangeKw, util_call.args[3] * MsPerSecond, 0)
        /\ AcceptedRangeWindow.start = SecondsOf(util_call.args[1]) * MsPerSecond
        /\ AcceptedRangeWindow.end = SecondsOf(util_call.args[2]) * MsPerSecond

\* is_valid_time_range("00:30", "01:00", 60) accepted a range ending exactly at the total
\* duration; split_custom_ranges exports it as [30000, 60000)
C28_RangeUpToTheEndAccepted ==
    /\ RangeAccepted
    /\ util_call.args = <<(<<"0", "0", ":", "3", "0">>), (<<"0", "1", ":", "0", "0">>), 60>>
    /\ AcceptedRangeWindow.start = 30000
    /\ AcceptedRangeWindow.end = 60000

----------------------------------------------------------------------------
\* "{number:0Wd}": {number} with a format width W
NumberWithWidth(width) == NumberKey \o <<":", "0", DigitChar[width], "d">>

\* the pattern uses {number}, bare or with a format width
UsesNumber(pattern) ==
    \/ Contains(pattern, NumberVar)
    \/ \E width \in 0 .. 9 : Contains(pattern, <<"{">> \o NumberWithWidth(width) \o <<"}">>)

UsesNumberWithWidth(pattern) ==
    \E width \in 0 .. 9 : Contains(pattern, <<"{">> \o NumberWithWidth(width) \o <<"}">>)

\* the balanced fields {...} of a pattern that hold one of the four placeholders
RECURSIVE OutsidePlaceholders(_)
OutsidePlaceholders(pattern) ==
    IF pattern = <<>> THEN <<>>
    ELSE IF /\ pattern[1] = "{"
            /\ \E k \in 2 .. Len(pattern) :
                  /\ pattern[k] = "}"
                  /\ SubSeq(pattern, 2, k - 1) \in
                        {OriginalNameKey, NumberKey, StartTimeKey, EndTimeKey}
                            \cup {NumberWithWidth(width) : width \in 0 .. 9}
         THEN LET close == CHOOSE k \in 2 .. Len(pattern) :
                               /\ pattern[k] = "}"
                               /\ \A j \in 2 .. k - 1 : pattern[j] /= "}"
              IN  OutsidePlaceholders(SubSeq(pattern, close + 1, Len(pattern)))
    ELSE <<pattern[1]>> \o OutsidePlaceholders(Tail(pattern))

\* the verdict the claim states for a pattern: the four reasons in their order, else valid
NamingVerdict(pattern) ==
    IF pattern = <<>> THEN <<FALSE, "Naming pattern cannot be empty">>
    ELSE IF ~Contains(pattern, OriginalNameVar)
         THEN <<FALSE, "Naming pattern must include {original_name}">>
    ELSE IF ~UsesNumber(pattern) /\ ~Contains(pattern, StartTimeVar)
                /\ ~Contains(pattern, EndTimeVar)
         THEN <<FALSE, "Naming pattern must include at least one of: {number}, {start_time}, {end_time}">>
    ELSE IF SearchInvalidChars(OutsidePlaceholders(pattern))
         THEN <<FALSE, "Naming pattern contains invalid characters for file names">>
    ELSE <<TRUE, None>>

\* C21: is_valid_naming_pattern rejects the empty pattern, every pattern lacking
\* {original_name}, every pattern with none of {number}/{start_time}/{end_time}, and every
\* pattern with one of < > : " / \ | ? * outside a placeholder, the reasons checked in that
\* order; it accepts "{original_name}_part_{number:03d}" and every pattern that uses
\* {number} with a format width.
C21_NamingPatternVerdict ==
    Returned("is_valid_naming_pattern") =>
        /\ ~NamingVerdict(util_call.args[1])[1]
              => util_ret.value = NamingVerdict(util_call.args[1])
        /\ util_call.args[1] = DEFAULT_NAMING_PATTERN => util_ret.value = <<TRUE, None>>
        /\ (NamingVerdict(util_call.args[1])[1] /\ UsesNumberWithWidth(util_call.args[1]))
              => util_ret.value = <<TRUE, None>>

\* is_valid_naming_pattern("{original_name}{number:04d}") has returned invalid: the colon
\* of the format width is taken for an invalid character
C21_OtherWidthRejected ==
    /\ Returned("is_valid_naming_pattern")
    /\ util_call.args[1] = OriginalNameVar \o NumberWideVar
    /\ util_ret.value = <<FALSE, "Naming pattern contains invalid characters for file names">>

----------------------------------------------------------------------------
\* C23: every naming pattern is_valid_naming_pattern accepts is rendered by
\* generate_output_filename without raising, for every part number and start/end time.
C23_AcceptedPatternRenders ==
    (Returned("generate_output_filename")
        /\ IsValidNamingPattern(util_call.args[5]) = <<TRUE, None>>)
    => util_ret.kind = "return"

\* generate_output_filename("test", 1, pattern="{original_name}{number}{title}") raised
\* a KeyError although is_valid_naming_pattern accepts the pattern
C23_UnknownFieldRaises ==
    /\ Returned("generate_output_filename")
    /\ util_call.args[1] = <<"t", "e", "s", "t">>
    /\ util_call.args[2] = 1
    /\ util_call.args[5] = UnknownFieldPattern
    /\ IsValidNamingPattern(UnknownFieldPattern) = <<TRUE, None>>
    /\ util_ret = Raise("KeyError")

----------------------------------------------------------------------------
\* the iteration (0-based) that exported the k-th element of the returned list
IterationOf(k) == result[k].number - 1

\* the paths of the returned list
ResultPaths == {OutputPath(call, IterationOf(k)) : k \in 1 .. Len(result)}

\* C24: for every policy and every naming pattern is_valid_naming_pattern accepts, the
\* output paths produced within one split are pairwise distinct: no two exported segments
\* are written to the same file, and the number of distinct files on disk equals the
\* length of the returned list.
C24_OutputPathsDistinct ==
    (EngineCompleted /\ IsValidNamingPattern(call.naming_pattern) = <<TRUE, None>>)
    => /\ \A j, k \in 1 .. Len(result) :
              j /= k => OutputPath(call, IterationOf(j)) /= OutputPath(call, IterationOf(k))
       /\ Cardinality(ResultPaths) = Len(result)

\* two custom ranges (10, 20) and (10, 20) named by "{original_name}_{start_time}-{end_time}":
\* both segments were exported to out/song_00:10-00:20.mp3, the list returned has two
\* entries and one file is on disk
C24_SameTimesSamePath ==
    /\ EngineCompleted
    /\ call.method = SPLIT_METHOD_CUSTOM
    /\ call.naming_pattern = TimesPattern
    /\ IsValidNamingPattern(TimesPattern) = <<TRUE, None>>
    /\ Ranges(call.kw) = <<(<<10, 20>>), (<<10, 20>>)>>
    /\ Len(result) = 2
    /\ OutputPath(call, 0) = OutputPath(call, 1)
    /\ Cardinality(ResultPaths) = 1

----------------------------------------------------------------------------
\* whole seconds of a time of the window of an exported segment, as format_time floors it
WindowSeconds(ms, den) == ms \div (den * MsPerSecond)

\* C25: for every exported segment under every policy, the {start_time} and {end_time}
\* rendered into its filename are format_time of the start and end of the window that was
\* sliced and exported (after clamping to the timeline): a custom range whose end is
\* clamped to the total duration is named with the clamped end.
C25_NamedByExportedWindow ==
    EngineCompleted =>
        \A k \in 1 .. Len(result) :
            FileName(call, IterationOf(k))
                = GenerateOutputFilename(call.original_name, result[k].number,
                                         <<WindowSeconds(result[k].start, result[k].den)>>,
                                         <<WindowSeconds(result[k].end, result[k].den)>>,
                                         call.naming_pattern, FormatChars(call.output_format))

\* the custom range (100, 200) on a 125000 ms audio was exported as [100000, 125000) and
\* named song_01:40-03:20.mp3
C25_ClampedRangeNamedUnclamped ==
    /\ EngineCompleted
    /\ call.method = SPLIT_METHOD_CUSTOM
    /\ call.naming_pattern = TimesPattern
    /\ call.total = 125000
    /\ Ranges(call.kw) = <<(<<100, 200>>)>>
    /\ Len(result) = 1
    /\ result[1].start = 100000 /\ result[1].end = 125000
    /\ FileName(call, 0).value
          = <<"s", "o", "n", "g", "_", "0", "1", ":", "4", "0", "-", "0", "3", ":", "2", "0",
              ".", "m", "p", "3">>

----------------------------------------------------------------------------
\* a split of the loaded file, called on the processor, has completed
LoadedFileSplit ==
    /\ EngineCompleted
    /\ call.via = "processor"
    /\ audio_file \in Paths
    /\ metadata = audio_file

\* N of the base name N.ext of the loaded file: the name with its final extension removed
LoadedStem == SplitExtRoot(Files[audio_file].name)

\* the file name of iteration k with stem substituted for {original_name}
NameSubstituting(stem, c, k) ==
    Format(c.naming_pattern,
           [original_name |-> stem,
            number |-> k + 1,
            start_time |-> FormatTime(NameStart(c.method, c.kw, c.total, k)),
            end_time |-> FormatTime(NameEnd(c.method, c.kw, c.total, k))]).value
        \o <<".">> \o FormatChars(c.output_format)

\* C26: for a loaded file whose base name is N.ext, every output filename substitutes
\* exactly N for {original_name}, also when N itself contains dots: the extension is
\* stripped once along AudioProcessor.split_audio -> engine -> generate_output_filename.
C26_OriginalNameStrippedOnce ==
    LoadedFileSplit =>
        \A k \in 1 .. Len(result) :
            FileName(call, IterationOf(k)).value
                = NameSubstituting(LoadedStem, call, IterationOf(k))

\* live.clip.wav split with the default pattern: the first file is named live_part_001.mp3,
\* not live.clip_part_001.mp3
C26_DottedNameStrippedTwice ==
    /\ LoadedFileSplit
    /\ audio_file = "live.clip.wav"
    /\ LoadedStem = <<"l", "i", "v", "e", ".", "c", "l", "i", "p">>
    /\ call.naming_pattern = DEFAULT_NAMING_PATTERN
    /\ result /= <<>>
    /\ FileName(call, 0).value
          = <<"l", "i", "v", "e", "_", "p", "a", "r", "t", "_", "0", "0", "1", ".", "m", "p", "3">>

----------------------------------------------------------------------------
\* a split started from the process page is in flight: its ProcessingThread was started
\* and processing_finished / processing_error has not been handled yet
InFlight == ui.thread /= "none"

\* C30: while a split started from the process tab is in flight, the shared AudioProcessor
\* is not mutated by the UI: no user action invokes AudioProcessor.load_file or starts a
\* second ProcessingThread on it until the running split has ended.
C30_NoLoadNoSecondThreadInFlight ==
    [][InFlight =>
          /\ ~\E path \in Paths : Files[path].exists /\ UiOpenFile(path)
          /\ ~\E path \in Paths : Files[path].exists /\ UiBrowseFile(path)
          /\ ~UiStartProcessing]_vars

\* the thread's split of song.mp3 (125000 ms) has not been handled yet, and File > Open has
\* already made the processor load live.clip.wav and enabled the configuration page
C30_LoadedDuringSplit ==
    /\ InFlight
    /\ pc \in {"returned", "done"}
    /\ ~ui.process_button
    /\ call.via = "processor"
    /\ call.total = 125000
    /\ audio_file = "live.clip.wav"
    /\ audio_segment = <<2500>>
    /\ ui.config_page

====
